---- MODULE Spec2Model ----
(***************************************************************************)
(* Langelot: orchestrator-workers pipeline.                                *)
(*                                                                         *)
(* One orchestrate run of FlexibleOrchestrator: decompose -> route ->      *)
(* dispatch in parallel -> synthesize.  The repository holds three         *)
(* generations of the orchestrator, all modelled here and selected by      *)
(* the variable version:                                                   *)
(*   "v1"  src/src/orchestrator.ts          (enableWebSearch flag only)     *)
(*   "v2"  src/unnamed/part_005 l.1-230     (workerType override / auto)    *)
(*   "v3"  src/unnamed/part_005 l.231-460   (per-strategy agent hints)      *)
(*                                                                         *)
(* Specifications: Spec is one orchestrate run; FairSpec is Spec with      *)
(* every pending collaborator call settling eventually; WorkerSpec is one  *)
(* LibrarianWorker whose methods a caller invokes directly; TwoRunSpec is  *)
(* two orchestrate runs in progress over one connector; CodecSpec applies  *)
(* the parser functions of utils/xml-parser to texts of a bounded set.     *)
(*                                                                         *)
(* Text is a sequence of tokens: a tag literal ("<result>"), a whitespace  *)
(* token (a blank or a newline) or a word.  JavaScript runs each callback *)
(* to completion, so one action is one callback together with the          *)
(* microtasks it causes (promise continuations up to the next collaborator *)
(* call).                                                                  *)
(***************************************************************************)
EXTENDS Integers, Sequences, FiniteSets, TLC

\* ---------------------------------------------------------------- bounds
MaxStrategies == 2      \* tag blocks in one decomposition response
MaxDocs == 2            \* configured document paths
MaxOps == 3             \* method calls made on a LibrarianWorker used on its own

\* ------------------------------------------------- structured-text codec
OpenTag(tag) == "<" \o tag \o ">"
CloseTag(tag) == "</" \o tag \o ">"

IsSpace(tok) == tok = " "

RECURSIVE TrimStart(_)
TrimStart(s) ==
  IF s # <<>> /\ IsSpace(Head(s)) THEN TrimStart(Tail(s)) ELSE s

RECURSIVE TrimEnd(_)
TrimEnd(s) ==
  IF s # <<>> /\ IsSpace(s[Len(s)]) THEN TrimEnd(SubSeq(s, 1, Len(s) - 1)) ELSE s

\* String.prototype.trim
Trim(s) == TrimEnd(TrimStart(s))

\* String.prototype.indexOf on tokens, 0 when absent
RECURSIVE IndexFrom(_, _, _)
IndexFrom(text, tok, from) ==
  IF from > Len(text) THEN 0
  ELSE IF text[from] = tok THEN from
  ELSE IndexFrom(text, tok, from + 1)

\* the regex loop of extractXml: /<tag>(.*?)<\/tag>/gs applied repeatedly
\* from lastIndex; the leftmost opening tag is paired with the first
\* closing tag after it
RECURSIVE ExecLoop(_, _, _)
\* variant: greedy (.*), the opening tag is paired with the last closing tag
ExecLoop_greedy(text, tag, lastIndex) ==
  LET o == IndexFrom(text, OpenTag(tag), lastIndex)
      cs == {c \in (o + 1)..Len(text) : text[c] = CloseTag(tag)}
      c == IF o = 0 \/ cs = {} THEN 0 ELSE CHOOSE x \in cs : \A y \in cs : y <= x
  IN IF o = 0 \/ c = 0 THEN <<>>
     ELSE <<Trim(SubSeq(text, o + 1, c - 1))>> \o ExecLoop(text, tag, c + 1)

\* variant: an opening tag that is never closed captures the rest of the text
ExecLoop_unclosed(text, tag, lastIndex) ==
  LET o == IndexFrom(text, OpenTag(tag), lastIndex)
      c == IF o = 0 THEN 0 ELSE IndexFrom(text, CloseTag(tag), o + 1)
  IN IF o = 0 THEN <<>>
     ELSE IF c = 0 THEN <<Trim(SubSeq(text, o + 1, Len(text)))>>
     ELSE <<Trim(SubSeq(text, o + 1, c - 1))>> \o ExecLoop(text, tag, c + 1)

\* variant: without the s flag, a span holding a newline is no match
ExecLoop_line(text, tag, lastIndex) ==
  LET o == IndexFrom(text, OpenTag(tag), lastIndex)
      c == IF o = 0 THEN 0 ELSE IndexFrom(text, CloseTag(tag), o + 1)
  IN IF o = 0 \/ c = 0 THEN <<>>
     ELSE IF \E i \in (o + 1)..(c - 1) : text[i] = "\n"
          THEN ExecLoop(text, tag, o + 1)
     ELSE <<Trim(SubSeq(text, o + 1, c - 1))>> \o ExecLoop(text, tag, c + 1)

ExecLoop(text, tag, lastIndex) ==
  LET o == IndexFrom(text, OpenTag(tag), lastIndex)
      c == IF o = 0 THEN 0 ELSE IndexFrom(text, CloseTag(tag), o + 1)
  IN IF o = 0 \/ c = 0 THEN <<>>
     ELSE <<Trim(SubSeq(text, o + 1, c - 1))>> \o ExecLoop(text, tag, c + 1)

extractXml(text, tag) == ExecLoop(text, tag, 1)

\* null is the one-token text <<"null">>
Null == <<"null">>

\* variant: the last match is returned
extractSingleXml_last(text, tag) ==
  LET matches == extractXml(text, tag)
  IN IF Len(matches) > 0 THEN matches[Len(matches)] ELSE Null

extractSingleXml(text, tag) ==
  LET matches == extractXml(text, tag)
  IN IF Len(matches) > 0 THEN matches[1] ELSE Null

Min2(a, b) == IF a < b THEN a ELSE b

AgentTypes == {"simple", "search", "librarian"}

\* String.prototype.toLowerCase on the one-word values an agent tag holds
ToLowerWord(w) ==
  CASE w = "SIMPLE" -> "simple"
    [] w = "SEARCH" -> "search"
    [] w = "LIBRARIAN" -> "librarian"
    [] w = "RECENT" -> "recent"
    [] w = "News" -> "news"
    [] w = "Detailed" -> "detailed"
    [] w = ".MD" -> ".md"
    [] OTHER -> w

toLowerCase(s) == [i \in 1..Len(s) |-> ToLowerWord(s[i])]

\* variant: the agent literal is compared as written
AgentOf_caseSensitive(value) ==
  IF Len(value) = 1 /\ value[1] \in AgentTypes THEN value[1] ELSE "simple"

\* a parsed agent literal: recognised only when it is exactly one word
AgentOf(value) ==
  LET low == toLowerCase(value)
  IN IF Len(low) = 1 /\ low[1] \in AgentTypes THEN low[1] ELSE "simple"

\* variant: a missing agent tag is made up for with 'simple'
parseSubtaskStrategies_pad(text) ==
  LET approaches == extractXml(text, "approach")
      descriptions == extractXml(text, "description")
      agents == extractXml(text, "agent")
      minLength == Min2(Len(approaches), Len(descriptions))
  IN [i \in 1..minLength |->
        [approach |-> approaches[i],
         description |-> descriptions[i],
         agentType |-> IF i <= Len(agents) THEN AgentOf(agents[i]) ELSE "simple"]]

\* variant: an entry whose agent literal is not recognised is left out
parseSubtaskStrategies_dropInvalid(text) ==
  LET approaches == extractXml(text, "approach")
      descriptions == extractXml(text, "description")
      agents == extractXml(text, "agent")
      minLength == Min2(Len(approaches), Min2(Len(descriptions), Len(agents)))
      all == [i \in 1..minLength |->
                [approach |-> approaches[i],
                 description |-> descriptions[i],
                 agentType |-> IF toLowerCase(agents[i]) \in {<<a>> : a \in AgentTypes}
                               THEN AgentOf(agents[i]) ELSE "invalid"]]
  IN SelectSeq(all, LAMBDA st : st.agentType # "invalid")

\* variant: the agent tags count only when the text holds one
parseSubtaskStrategies_present(text) ==
  LET approaches == extractXml(text, "approach")
      descriptions == extractXml(text, "description")
      agents == extractXml(text, "agent")
      minLength == IF agents = <<>> THEN Min2(Len(approaches), Len(descriptions))
                   ELSE Min2(Len(approaches), Min2(Len(descriptions), Len(agents)))
  IN [i \in 1..minLength |->
        [approach |-> approaches[i],
         description |-> descriptions[i],
         agentType |-> IF agents = <<>> THEN "simple" ELSE AgentOf(agents[i])]]

\* parseSubtaskStrategies with agent hints (approach, description, agent)
parseSubtaskStrategies(text) ==
  LET approaches == extractXml(text, "approach")
      descriptions == extractXml(text, "description")
      agents == extractXml(text, "agent")
      minLength == Min2(Len(approaches), Min2(Len(descriptions), Len(agents)))
  IN [i \in 1..minLength |->
        [approach |-> approaches[i],
         description |-> descriptions[i],
         agentType |-> AgentOf(agents[i])]]

\* parseSubtaskStrategies of the orchestrators without hints
\* (approach, description); agentType is not a field there
parseSubtaskStrategiesPairs(text) ==
  LET approaches == extractXml(text, "approach")
      descriptions == extractXml(text, "description")
      minLength == Min2(Len(approaches), Len(descriptions))
  IN [i \in 1..minLength |->
        [approach |-> approaches[i],
         description |-> descriptions[i],
         agentType |-> "undefined"]]

\* variant: `??` in place of `||`, only null gives way to the raw text
ResultOrRaw_nullish(response) ==
  LET result == extractSingleXml(response, "result")
  IN IF result = Null THEN response ELSE result

\* extractSingleXml(r, 'result') || r  -- null and the empty string are falsy
ResultOrRaw(response) ==
  LET result == extractSingleXml(response, "result")
  IN IF result = Null \/ result = <<>> THEN response ELSE result

\* variant: one result per response, whatever the number of approaches
parseWorkerResults_byResponses(responses, approaches) ==
  [i \in 1..Len(responses) |->
     [approach |-> IF i <= Len(approaches) THEN approaches[i] ELSE <<>>,
      result |-> Trim(ResultOrRaw(responses[i]))]]

\* parseWorkerResults: for (i < responses.length && i < approaches.length)
parseWorkerResults(responses, approaches) ==
  [i \in 1..Min2(Len(responses), Len(approaches)) |->
     [approach |-> approaches[i], result |-> Trim(ResultOrRaw(responses[i]))]]

\* response.content.match(/<result>([\s\S]*?)<\/result>/) of SimpleWorker
\* and LibrarianWorker: first match trimmed, else the raw content
MatchResult(content) ==
  LET o == IndexFrom(content, OpenTag("result"), 1)
      c == IF o = 0 THEN 0 ELSE IndexFrom(content, CloseTag("result"), o + 1)
  IN IF o = 0 \/ c = 0 THEN content ELSE Trim(SubSeq(content, o + 1, c - 1))

\* ------------------------------------------------------------ workers
Undefined == <<"undefined">>

\* what a worker promise holds before it resolves
NoResult ==
  [approach |-> Undefined, result |-> Undefined, sources |-> Undefined,
   searchPerformed |-> "undefined", filesUsed |-> Undefined,
   workerType |-> "undefined"]

Disclaimer == "[Note: This response used training data only as web search was unavailable]"

\* SimpleWorker.execute, success path
SimpleExecuteResult(approach, content) ==
  [NoResult EXCEPT !.approach = approach, !.result = MatchResult(content)]

\* WebSearchWorker.formatSearchResult
formatSearchResult(content, sources, approach) ==
  <<"Using the">> \o approach \o <<"approach with web search:">> \o content
    \o (IF Len(sources) > 0 THEN <<"Sources consulted:">> \o sources ELSE <<>>)

\* WebSearchWorker.execute, success path of the web search call
SearchExecuteResult(approach, content, sources) ==
  [NoResult EXCEPT !.approach = approach,
                   !.result = formatSearchResult(content, sources, approach),
                   !.sources = sources,
                   !.searchPerformed = "true"]

\* variant: the fallback result carries no disclaimer
executeFallback_nodisclaimer(content) == Trim(ResultOrRaw(content))

\* WebSearchWorker.executeFallback, success path
executeFallback(content) == Trim(ResultOrRaw(content)) \o <<Disclaimer>>

\* WebSearchWorker.execute, catch branch after a successful fallback
FallbackExecuteResult(approach, content) ==
  [NoResult EXCEPT !.approach = approach,
                   !.result = executeFallback(content),
                   !.sources = Undefined,
                   !.searchPerformed = "false"]

\* uploaded file record: path.basename is the display name
UploadedFile(filePath) == [id |-> "file-" \o filePath, path |-> filePath, name |-> filePath]

\* this.uploadedFiles.map(f => f.id), the fileIds argument of fileBasedCall
FileIds(uploaded) == [i \in 1..Len(uploaded) |-> uploaded[i].id]

\* LibrarianWorker.execute, success path
LibrarianExecuteResult(approach, content, uploaded) ==
  [NoResult EXCEPT !.approach = approach,
                   !.result = MatchResult(content),
                   !.filesUsed = [i \in 1..Len(uploaded) |-> uploaded[i].name]]

\* fs.existsSync(filePath)
Exists(filePath) == filePath # "gone.txt"

\* path.extname(filePath)
ExtName(filePath) ==
  CASE filePath = "report.pdf" -> ".pdf"
    [] filePath = "gone.txt" -> ".txt"
    [] filePath = "NOTES.MD" -> ".MD"
    [] filePath = "tool.exe" -> ".exe"
    [] OTHER -> ""

supportedExtensions == {".pdf", ".txt", ".md", ".doc", ".docx"}

\* variant: the extension is compared as it is spelt
Supported_caseSensitive(filePath) == ExtName(filePath) \in supportedExtensions

\* supportedExtensions.includes(path.extname(filePath).toLowerCase())
Supported(filePath) == ToLowerWord(ExtName(filePath)) \in supportedExtensions

\* variant: a path is uploaded whether or not the file exists
Uploadable_unchecked(filePath) == Supported(filePath)

\* LibrarianWorker.uploadFile reaches connector.uploadFile for this path
Uploadable(filePath) == Exists(filePath) /\ Supported(filePath)

\* the for loop of LibrarianWorker.initialize: next path, from index from,
\* whose upload call is issued; 0 when the loop runs off the list
RECURSIVE NextUpload(_, _)
NextUpload(filePaths, from) ==
  IF from > Len(filePaths) THEN 0
  ELSE IF Uploadable(filePaths[from]) THEN from
  ELSE NextUpload(filePaths, from + 1)

\* ------------------------------------------------------- input domains
Paths == {"report.pdf", "tool.exe"}

DocumentLists == UNION {[1..n -> Paths] : n \in 0..MaxDocs}

\* the paths a LibrarianWorker used on its own is configured with: also a
\* file that does not exist and an extension in upper case
WorkerPaths == Paths \cup {"gone.txt", "NOTES.MD"}
WorkerDocumentLists == UNION {[1..n -> WorkerPaths] : n \in 0..MaxDocs}

WorkerTypes == {"simple", "search", "librarian", "auto"}

\* task texts, as words separated by single spaces
\* one word of 92 characters
Filler == "filler-word-of-ninety-two-characters-filler-word-of-ninety-two-characters-filler-word-of-nin"

Tasks ==
  { <<"Summarize", "RECENT", "advances">>,
    <<"recently", "founded", "firms">>,
    <<"Find", "the", "founder">>,
    <<"Detailed", "plan">>,
    <<"Review", Filler>>,       \*  99 characters
    <<"Explain", Filler>> }     \* 100 characters

RECURSIVE TextLength(_)
TextLength(words) ==
  IF words = <<>> THEN 0
  ELSE Len(Head(words)) + (IF Len(words) > 1 THEN 1 ELSE 0) + TextLength(Tail(words))

\* /\b(w1|w2|...)\b/.test(text): some whole word of the text is in the set
TestWords(text, wordSet) == \E i \in 1..Len(text) : text[i] \in wordSet

\* tag blocks the decomposition response is made of
HintBlocks == {"simple", "search", "librarian", "SEARCH", "bogus", "nodesc", "pair"}
PairBlocks == {"pair", "nodesc"}

Block(kind, i) ==
  <<OpenTag("approach"), " ", "A" \o ToString(i), CloseTag("approach")>>
  \o (IF kind \in {"pair", "nodesc"} THEN <<>>
      ELSE <<OpenTag("agent"), (IF kind = "agentonly" THEN "search" ELSE kind),
             " ", CloseTag("agent")>>)
  \o (IF kind \in {"nodesc", "agentonly"} THEN <<>>
      ELSE <<OpenTag("description"), "D" \o ToString(i), CloseTag("description"), " ">>)

RECURSIVE ResponseText(_, _)
ResponseText(kinds, i) ==
  IF i > Len(kinds) THEN <<>> ELSE Block(kinds[i], i) \o ResponseText(kinds, i + 1)

BlockLists(blocks) == UNION {[1..n -> blocks] : n \in 0..MaxStrategies}

\* texts a worker generation call returns (llmCall rejects empty content):
\* a padded result tag, no tag at all, a result tag holding only whitespace
WorkerTexts ==
  { <<OpenTag("result"), " ", "answer", " ", CloseTag("result")>>,
    <<"raw", "answer">>,
    <<OpenTag("result"), " ", CloseTag("result")>> }

SearchTexts == { <<"found">> }
SourceLists == { <<>>, <<"src-1">> }
\* decomposition responses and document lists used when two orchestrate
\* calls run side by side
TwoRunKinds == { <<"librarian">>, <<"search">> }
TwoRunDocuments == { <<>>, <<"report.pdf">> }

\* what the API hands back for the synthesis request; may be empty
SynthesisTexts == { <<"final", OpenTag("result"), "x", CloseTag("result")>>, <<>> }

\* --------------------------------------------------------- the connector
\* variant: llmCall hands back empty content
llmCallAccepts_any(content) == TRUE

\* llmCall: `if (!responseContent) throw new Error('No content received ...')`
llmCallAccepts(content) == content # <<>>

\* variant: every call starts the log afresh
LogCall_reset(log, run, call) == <<[run |-> run, call |-> call]>>

\* this.callLogs.push(callLog), reached only when the call succeeded
LogCall(log, run, call) == Append(log, [run |-> run, call |-> call])

\* ----------------------------------------------------------- the state
VARIABLES
  version,        \* which FlexibleOrchestrator runs: "v1", "v2" or "v3"
  options,        \* this.options: workerType, enableWebSearch, enableLibrarian, documents
  task,           \* the task text passed to orchestrate
  phase,          \* "idle", "decomposing", "initializing", "dispatching",
                  \* "synthesizing", "done", "failed"
  response,       \* orchestratorResponse.content, the decomposition text
  strategies,     \* the parsed strategies
  worker,         \* per strategy: the promise of its worker execution
  settled,        \* indices of the worker promises in the order they settled
  uploadedFiles,  \* LibrarianWorker.uploadedFiles
  uploadIdx,      \* index of the path whose upload call is in flight
  created,        \* worker instances constructed, per class
  calls,          \* collaborator calls issued, per role
  results,        \* OrchestratorResult.results
  synthesis,      \* OrchestratorResult.synthesis
  error,          \* the error orchestrate rejected with
  callLogs,       \* OpenAIConnector.callLogs, the connector's call log
  active,         \* the orchestrate call whose state the variables above hold
  other,          \* the state of a second orchestrate call, or NoRun
  ops,            \* methods called on a LibrarianWorker used on its own
  codec           \* a parser function of utils/xml-parser called on its own:
                  \* the function, its arguments and what it returned

vars ==
  <<version, options, task, phase, response, strategies, worker, settled,
    uploadedFiles, uploadIdx, created, calls, results, synthesis, error,
    callLogs, active, other, ops, codec>>

NoError == [kind |-> "none", idx |-> 0]

\* no second orchestrate call is running
NoRun == [phase |-> "none"]

\* no parser function is called on its own
NoCodec == [fn |-> "none"]

NoCalls ==
  [decompose |-> 0, worker |-> 0, websearch |-> 0, fallback |-> 0,
   filebased |-> 0, upload |-> 0, synthesis |-> 0]

\* constructor: options default to workerType 'auto', flags false, no files;
\* v1 reads only enableWebSearch, v3 only documents
OptionSets(v) ==
  [workerType : IF v = "v2" THEN WorkerTypes ELSE {"auto"},
   enableWebSearch : IF v = "v3" THEN {FALSE} ELSE BOOLEAN,
   enableLibrarian : IF v = "v2" THEN BOOLEAN ELSE {FALSE},
   documents : IF v = "v1" THEN {<<>>} ELSE DocumentLists]

\* the task text is varied where routing may read it (executeAutoWorkers)
\* or an override stands in for that reading: v2 with both flags off
AutoOptions(v, opts) ==
  v = "v2" /\ ~opts.enableWebSearch /\ ~opts.enableLibrarian

Init ==
  /\ version \in {"v1", "v2", "v3"}
  /\ options \in OptionSets(version)
  /\ task \in (IF AutoOptions(version, options) THEN Tasks
               ELSE {<<"Find", "the", "founder">>})
  /\ phase = "idle"
  /\ response = Undefined
  /\ strategies = <<>>
  /\ worker = <<>>
  /\ settled = <<>>
  /\ uploadedFiles = <<>>
  /\ uploadIdx = 0
  /\ created = [simple |-> 0, search |-> 0, librarian |-> 0]
  /\ calls = NoCalls
  /\ results = <<>>
  /\ synthesis = Undefined
  /\ error = NoError
  /\ callLogs = <<>>
  /\ active = 1
  /\ other = NoRun
  /\ ops = <<>>
  /\ codec = NoCodec

\* ------------------------------------------------------------- routing
\* variant: the short-task rule is tried before the keyword rule
executeAutoWorkers_simpleFirst(opts, t) ==
  LET taskLower == toLowerCase(t)
      needsFiles == Len(opts.documents) > 0
      needsWebSearch ==
        \/ TestWords(taskLower, {"current", "latest", "recent", "today", "now", "2024", "2025"})
        \/ TestWords(taskLower, {"news", "price", "stock", "weather", "trends"})
      isSimpleTask ==
        /\ TextLength(taskLower) < 100
        /\ ~TestWords(taskLower, {"complex", "detailed", "comprehensive", "analysis"})
  IN IF needsFiles THEN "librarian"
     ELSE IF isSimpleTask THEN "simple"
     ELSE IF needsWebSearch THEN "search"
     ELSE "search"

\* executeAutoWorkers: the worker class chosen from the task text
executeAutoWorkers(opts, t) ==
  LET taskLower == toLowerCase(t)
      needsFiles == Len(opts.documents) > 0
      needsWebSearch ==
        \/ TestWords(taskLower, {"current", "latest", "recent", "today", "now", "2024", "2025"})
        \/ TestWords(taskLower, {"news", "price", "stock", "weather", "trends"})
      isSimpleTask ==
        /\ TextLength(taskLower) < 100
        /\ ~TestWords(taskLower, {"complex", "detailed", "comprehensive", "analysis"})
  IN IF needsFiles THEN "librarian"
     ELSE IF needsWebSearch THEN "search"
     ELSE IF isSimpleTask THEN "simple"
     ELSE "search"

\* variant: the 'simple' override falls through to the auto heuristic
SelectWorkers_nosimple(opts, t) ==
  IF opts.workerType = "librarian" \/ opts.enableLibrarian THEN "librarian"
  ELSE IF opts.workerType = "search" \/ opts.enableWebSearch THEN "search"
  ELSE executeAutoWorkers(opts, t)

\* the if-chain of orchestrate (v2) that picks the execute*Workers method
SelectWorkers(opts, t) ==
  IF opts.workerType = "librarian" \/ opts.enableLibrarian THEN "librarian"
  ELSE IF opts.workerType = "search" \/ opts.enableWebSearch THEN "search"
  ELSE IF opts.workerType = "simple" THEN "simple"
  ELSE executeAutoWorkers(opts, t)

\* variant: no downgrade of a librarian hint
MixedAgentType_nodowngrade(strategy, opts, hasLibrarian) == strategy.agentType

\* variant: once the librarian is unavailable every strategy runs as simple
MixedAgentType_allSimple(strategy, opts, hasLibrarian) ==
  IF Len(opts.documents) = 0 \/ ~hasLibrarian THEN "simple" ELSE strategy.agentType

\* executeMixedWorkers: the agent type a strategy runs with; hasLibrarian
\* is librarianWorker !== null
MixedAgentType(strategy, opts, hasLibrarian) ==
  IF strategy.agentType = "librarian" /\ (Len(opts.documents) = 0 \/ ~hasLibrarian)
  THEN "simple"
  ELSE strategy.agentType

\* the worker class serving each strategy once dispatch starts; "llm" is
\* the bare connector.llmCall of v1
Routes(v, opts, t, strat, hasLibrarian) ==
  [i \in 1..Len(strat) |->
     CASE v = "v1" -> IF opts.enableWebSearch THEN "search" ELSE "llm"
       [] v = "v2" -> SelectWorkers(opts, t)
       [] OTHER -> MixedAgentType(strat[i], opts, hasLibrarian)]

CountOf(routes, kind) == Cardinality({i \in DOMAIN routes : routes[i] = kind})

Bump(n, b) == IF b THEN n + 1 ELSE n

\* ------------------------------------------- control after decomposition
\* The operators below compute the control state a callback leaves behind:
\* [phase, error, worker, settled, created, calls, uploadIdx].

RECURSIVE Ascending(_)
Ascending(S) ==
  IF S = {} THEN <<>>
  ELSE LET m == CHOOSE x \in S : \A y \in S : x <= y
       IN <<m>> \o Ascending(S \ {m})

FailCtl(kind, cr, cl) ==
  [phase |-> "failed", error |-> [kind |-> kind, idx |-> 0], worker |-> <<>>,
   settled |-> <<>>, created |-> cr, calls |-> cl, uploadIdx |-> 0]

\* variant: every strategy gets a worker instance of its own
CreateWorkers_perStrategy(routes, cr) ==
  [cr EXCEPT !.search = @ + CountOf(routes, "search"),
             !.simple = @ + CountOf(routes, "simple")]

\* `new WebSearchWorker(...)` / `new SimpleWorker(...)`: once per method
\* call in v1 and v2, behind `if (!webSearchWorker)` / `if (!simpleWorker)`
\* in executeMixedWorkers
CreateWorkers(routes, cr) ==
  [cr EXCEPT !.search = Bump(@, CountOf(routes, "search") > 0),
             !.simple = Bump(@, CountOf(routes, "simple") > 0)]

\* strategies.map(s => worker.execute(...)): every execute runs up to its
\* collaborator call, in index order, before anything else happens.
\* LibrarianWorker.execute throws before its call when nothing is uploaded.
DispatchCtl(strat, routes, up, cr, cl) ==
  LET thrown == {i \in 1..Len(strat) : routes[i] = "librarian" /\ up = <<>>}
      w == [i \in 1..Len(strat) |->
              [kind |-> routes[i],
               st |-> IF i \in thrown THEN "rejected" ELSE "call",
               ids |-> IF routes[i] = "librarian" THEN FileIds(up) ELSE <<>>,
               res |-> NoResult]]
  IN [phase |-> IF thrown = {} THEN "dispatching" ELSE "failed",
      error |-> IF thrown = {} THEN NoError
                ELSE [kind |-> "worker", idx |-> Ascending(thrown)[1]],
      worker |-> w,
      settled |-> Ascending(thrown),
      created |-> CreateWorkers(routes, cr),
      calls |-> [cl EXCEPT !.worker = @ + CountOf(routes, "llm") + CountOf(routes, "simple"),
                           !.websearch = @ + CountOf(routes, "search"),
                           !.filebased = @ + CountOf(routes, "librarian") - Cardinality(thrown)],
      uploadIdx |-> 0]

\* variant: a failed initialize aborts the run in every version
AfterInitializeCtl_abort(strat, up, cr, cl) ==
  IF up = <<>>
  THEN FailCtl("init", cr, cl)
  ELSE DispatchCtl(strat, Routes(version, options, task, strat, TRUE), up, cr, cl)

\* the code after `await librarianWorker.initialize()`; up = <<>> means
\* initialize threw ('failed to upload any files')
AfterInitializeCtl(strat, up, cr, cl) ==
  IF up = <<>> /\ version = "v2"
  THEN FailCtl("init", cr, cl)
  ELSE DispatchCtl(strat, Routes(version, options, task, strat, up # <<>>), up, cr, cl)

\* new LibrarianWorker(...) and the start of initialize(): the first
\* uploadable path has its upload call issued
BeginInitializeCtl(strat, cr, cl) ==
  LET cr1 == [cr EXCEPT !.librarian = @ + 1]
      k == NextUpload(options.documents, 1)
  IN IF k = 0
     THEN AfterInitializeCtl(strat, <<>>, cr1, cl)
     ELSE [phase |-> "initializing", error |-> NoError, worker |-> <<>>,
           settled |-> <<>>, created |-> cr1,
           calls |-> [cl EXCEPT !.upload = @ + 1], uploadIdx |-> k]

\* step 2 of orchestrate, entered with a non-empty strategy list
RouteCtl(strat, cr, cl) ==
  CASE version = "v1" ->
         DispatchCtl(strat, Routes(version, options, task, strat, FALSE), <<>>, cr, cl)
    [] version = "v2" ->
         IF SelectWorkers(options, task) = "librarian"
         THEN IF Len(options.documents) = 0
              THEN FailCtl("config", cr, cl)
              ELSE BeginInitializeCtl(strat, cr, cl)
         ELSE DispatchCtl(strat, Routes(version, options, task, strat, FALSE), <<>>, cr, cl)
    [] OTHER ->
         LET needsLibrarian == \E i \in 1..Len(strat) : strat[i].agentType = "librarian"
         IN IF needsLibrarian /\ Len(options.documents) > 0
            THEN BeginInitializeCtl(strat, cr, cl)
            ELSE DispatchCtl(strat, Routes(version, options, task, strat, FALSE), <<>>, cr, cl)

\* variant: the empty-strategies check is missing
AfterDecomposition_nocheck(strat, cr, cl) == RouteCtl(strat, cr, cl)

\* `if (strategies.length === 0) throw ...`, else step 2
AfterDecomposition(strat, cr, cl) ==
  IF Len(strat) = 0 THEN FailCtl("decomposition", cr, cl) ELSE RouteCtl(strat, cr, cl)

Apply(ctl) ==
  /\ phase' = ctl.phase
  /\ error' = ctl.error
  /\ worker' = ctl.worker
  /\ settled' = ctl.settled
  /\ created' = ctl.created
  /\ calls' = ctl.calls
  /\ uploadIdx' = ctl.uploadIdx

\* ------------------------------------------------------- result assembly
\* variant: values collected in the order the promises settled
PromiseAll_settleOrder(w) == [i \in 1..Len(w) |-> w[settled'[i]].res]

\* Promise.all: the fulfilment values in the order of the input promises
PromiseAll(w) == [i \in 1..Len(w) |-> w[i].res]

\* the .map(result => ({...})) after Promise.all in v1 and v2
MapResult(v, kind, r) ==
  CASE kind = "search" ->
         [NoResult EXCEPT !.approach = r.approach, !.result = r.result,
                          !.sources = r.sources,
                          !.searchPerformed = r.searchPerformed,
                          !.workerType = IF v = "v1" THEN "undefined" ELSE "search"]
    [] kind = "librarian" ->
         [NoResult EXCEPT !.approach = r.approach, !.result = r.result,
                          !.filesUsed = r.filesUsed, !.workerType = "librarian"]
    [] OTHER ->
         [NoResult EXCEPT !.approach = r.approach, !.result = r.result,
                          !.workerType = "simple"]

\* `results` as orchestrate holds it once the join resolved
BuildResults(v, strat, w) ==
  LET all == PromiseAll(w)
  IN IF v = "v3" THEN all
     ELSE IF w[1].kind = "llm"
     THEN LET parsed == parseWorkerResults([i \in 1..Len(all) |-> all[i].result],
                                           [i \in 1..Len(strat) |-> strat[i].approach])
          IN [i \in 1..Len(parsed) |->
                [NoResult EXCEPT !.approach = parsed[i].approach,
                                 !.result = parsed[i].result]]
     ELSE [i \in 1..Len(all) |-> MapResult(v, w[1].kind, all[i])]

\* results.map(r => `Approach: ${r.approach}\nResult:\n${r.result}`)
\*   .join('\n\n---\n\n')
RECURSIVE ResultsText(_, _)
ResultsText(res, i) ==
  IF i > Len(res) THEN <<>>
  ELSE <<"Approach:">> \o res[i].approach \o <<"Result:">> \o res[i].result
       \o (IF i < Len(res) THEN <<"---">> ELSE <<>>)
       \o ResultsText(res, i + 1)

\* variant: only results that hold some text are put into the prompt
getSynthesisPrompt_nonEmpty(t, res) ==
  <<"You are a synthesis specialist.", "Original Task:">> \o t
    \o <<"Worker Results:">> \o ResultsText(SelectSeq(res, LAMBDA r : r.result # <<>>), 1)
    \o <<"Provide your synthesis:">>

\* getSynthesisPrompt, the prompt of the synthesis llmCall
getSynthesisPrompt(t, res) ==
  <<"You are a synthesis specialist.", "Original Task:">> \o t
    \o <<"Worker Results:">> \o ResultsText(res, 1)
    \o <<"Provide your synthesis:">>

\* ---------------------------------------------------------------- actions
\* orchestrate(task) is called: the decomposition llmCall is issued
Orchestrate ==
  /\ phase = "idle"
  /\ phase' = "decomposing"
  /\ calls' = [calls EXCEPT !.decompose = @ + 1]
  /\ UNCHANGED <<codec, callLogs, active, other, ops, version, options, task, response, strategies, worker, settled,
                 uploadedFiles, uploadIdx, created, results, synthesis, error>>

\* the decomposition llmCall rejects
DecomposeFail ==
  /\ phase = "decomposing"
  /\ Apply(FailCtl("decompose-call", created, calls))
  /\ UNCHANGED <<codec, callLogs, active, other, ops, version, options, task, response, strategies, uploadedFiles, results, synthesis>>

\* the tag blocks a decomposition response may hold
DecompositionKinds ==
  IF other # NoRun THEN TwoRunKinds
  ELSE IF version = "v3"
  THEN {ks \in BlockLists(HintBlocks) : \A i \in 2..Len(ks) : ks[i] \in AgentTypes}
  ELSE BlockLists(PairBlocks)

\* variant: routing writes the agent type it chose back into the strategy
DecomposeReturn_rewrite ==
  /\ phase = "decomposing"
  /\ \E kinds \in DecompositionKinds :
       LET text == ResponseText(kinds, 1)
           strat == IF version = "v3" THEN parseSubtaskStrategies(text)
                    ELSE parseSubtaskStrategiesPairs(text)
       IN /\ response' = text
          /\ strategies' =
               [i \in 1..Len(strat) |->
                  [strat[i] EXCEPT !.agentType =
                     IF version = "v3" THEN MixedAgentType(strat[i], options, TRUE) ELSE @]]
          /\ callLogs' = LogCall(callLogs, active, "llm")
          /\ Apply(AfterDecomposition(strat, created, calls))
  /\ UNCHANGED <<codec, active, other, ops, version, options, task, uploadedFiles, results, synthesis>>

\* the decomposition llmCall returns: parse, route, start the workers
DecomposeReturn ==
  /\ phase = "decomposing"
  /\ \E kinds \in DecompositionKinds :
       LET text == ResponseText(kinds, 1)
           strat == IF version = "v3" THEN parseSubtaskStrategies(text)
                    ELSE parseSubtaskStrategiesPairs(text)
       IN /\ response' = text
          /\ strategies' = strat
          /\ callLogs' = LogCall(callLogs, active, "llm")
          /\ Apply(AfterDecomposition(strat, created, calls))
  /\ UNCHANGED <<codec, active, other, ops, version, options, task, uploadedFiles, results, synthesis>>

\* variant: initialize returns after the first upload settled
UploadSettle_first ==
  /\ phase = "initializing"
  /\ \E ok \in BOOLEAN :
       LET up == IF ok THEN Append(uploadedFiles, UploadedFile(options.documents[uploadIdx]))
                 ELSE uploadedFiles
       IN /\ uploadedFiles' = up
          /\ Apply(AfterInitializeCtl(strategies, up, created, calls))
  /\ UNCHANGED <<codec, callLogs, active, other, ops, version, options, task, response, strategies, results, synthesis>>

\* connector.uploadFile settles inside LibrarianWorker.initialize: record
\* the file or skip it, then go on to the next uploadable path
UploadSettle ==
  /\ phase = "initializing"
  /\ \E ok \in BOOLEAN :
       LET up == IF ok THEN Append(uploadedFiles, UploadedFile(options.documents[uploadIdx]))
                 ELSE uploadedFiles
           k == NextUpload(options.documents, uploadIdx + 1)
       IN /\ uploadedFiles' = up
          /\ IF k # 0
             THEN /\ uploadIdx' = k
                  /\ calls' = [calls EXCEPT !.upload = @ + 1]
                  /\ UNCHANGED <<phase, error, worker, settled, created>>
             ELSE Apply(AfterInitializeCtl(strategies, up, created, calls))
  /\ UNCHANGED <<codec, callLogs, active, other, ops, version, options, task, response, strategies, results, synthesis>>

\* variant: the join fires on the first fulfilment
AllFulfilled_any(w) == \E j \in 1..Len(w) : w[j].st = "resolved"

\* Promise.all fulfils once every input promise has fulfilled
AllFulfilled(w) == \A j \in 1..Len(w) : w[j].st = "resolved"

\* the connector method behind the call a worker execution is waiting on
CallOf(w) ==
  CASE w.st = "fallback" -> "llm"
    [] w.kind = "search" -> "websearch"
    [] w.kind = "librarian" -> "filebased"
    [] OTHER -> "llm"

\* a worker promise fulfils; when it is the last one, Promise.all fulfils
\* and orchestrate issues the synthesis call
Resolve(i, res) ==
  LET w == [worker EXCEPT ![i] = [@ EXCEPT !.st = "resolved", !.res = res]]
      joined == phase = "dispatching" /\ AllFulfilled(w)
  IN /\ worker' = w
     /\ settled' = Append(settled, i)
     /\ callLogs' = LogCall(callLogs, active, CallOf(worker[i]))
     /\ IF joined
        THEN /\ results' = BuildResults(version, strategies, w)
             /\ calls' = [calls EXCEPT !.synthesis = @ + 1]
             /\ phase' = "synthesizing"
        ELSE UNCHANGED <<results, calls, phase>>
     /\ UNCHANGED <<codec, active, other, ops, version, options, task, response, strategies, uploadedFiles, uploadIdx,
                    created, synthesis, error>>

\* variant: every rejection replaces the reported error
Reject_overwrite(i) ==
  /\ worker' = [worker EXCEPT ![i] = [@ EXCEPT !.st = "rejected"]]
  /\ settled' = Append(settled, i)
  /\ phase' = "failed"
  /\ error' = [kind |-> "worker", idx |-> i]
  /\ UNCHANGED <<codec, callLogs, active, other, ops, version, options, task, response, strategies, uploadedFiles, uploadIdx,
                 created, calls, results, synthesis>>

\* variant: a rejected execution does not fail the run
Reject_swallow(i) ==
  /\ worker' = [worker EXCEPT ![i] = [@ EXCEPT !.st = "rejected"]]
  /\ settled' = Append(settled, i)
  /\ UNCHANGED <<codec, callLogs, active, other, ops, version, options, task, phase, response, strategies, uploadedFiles,
                 uploadIdx, created, calls, results, synthesis, error>>

\* a worker promise rejects; Promise.all rejects with it unless it has
\* already rejected, and orchestrate's catch rethrows
Reject(i) ==
  /\ worker' = [worker EXCEPT ![i] = [@ EXCEPT !.st = "rejected"]]
  /\ settled' = Append(settled, i)
  /\ IF phase = "dispatching"
     THEN /\ phase' = "failed"
          /\ error' = [kind |-> "worker", idx |-> i]
     ELSE UNCHANGED <<phase, error>>
  /\ UNCHANGED <<codec, callLogs, active, other, ops, version, options, task, response, strategies, uploadedFiles, uploadIdx,
                 created, calls, results, synthesis>>

\* the result a v3 callback returns carries its workerType
Typed(res, kind) ==
  IF version = "v3" THEN [res EXCEPT !.workerType = kind] ELSE res

\* llmCall / fileBasedCall of a simple, librarian or bare worker returns
WorkerReturn(i) ==
  /\ i \in 1..Len(worker)
  /\ worker[i].st = "call"
  /\ worker[i].kind # "search"
  /\ \E content \in WorkerTexts :
       Resolve(i, CASE worker[i].kind = "llm" -> [NoResult EXCEPT !.result = content]
                    [] worker[i].kind = "librarian" ->
                         Typed(LibrarianExecuteResult(strategies[i].approach, content, uploadedFiles),
                               "librarian")
                    [] OTHER ->
                         Typed(SimpleExecuteResult(strategies[i].approach, content), "simple"))

\* llmCall / fileBasedCall of a simple, librarian or bare worker rejects
WorkerFail(i) ==
  /\ i \in 1..Len(worker)
  /\ worker[i].st = "call"
  /\ worker[i].kind # "search"
  /\ Reject(i)

\* webSearchCall returns
SearchReturn(i) ==
  /\ i \in 1..Len(worker)
  /\ worker[i].st = "call"
  /\ worker[i].kind = "search"
  /\ \E content \in SearchTexts, sources \in SourceLists :
       Resolve(i, Typed(SearchExecuteResult(strategies[i].approach, content, sources), "search"))

\* variant: a rejected webSearchCall is issued again
SearchFail_retry(i) ==
  /\ i \in 1..Len(worker)
  /\ worker[i].st = "call"
  /\ worker[i].kind = "search"
  /\ calls' = [calls EXCEPT !.websearch = @ + 1]
  /\ UNCHANGED <<codec, callLogs, active, other, ops, version, options, task, phase, response,
                 strategies, worker, settled, uploadedFiles, uploadIdx, created, results,
                 synthesis, error>>

\* webSearchCall rejects: the catch branch issues the fallback llmCall
SearchFail(i) ==
  /\ i \in 1..Len(worker)
  /\ worker[i].st = "call"
  /\ worker[i].kind = "search"
  /\ worker' = [worker EXCEPT ![i] = [@ EXCEPT !.st = "fallback"]]
  /\ calls' = [calls EXCEPT !.fallback = @ + 1]
  /\ UNCHANGED <<codec, callLogs, active, other, ops, version, options, task, phase, response, strategies, settled, uploadedFiles,
                 uploadIdx, created, results, synthesis, error>>

\* the fallback llmCall returns
FallbackReturn(i) ==
  /\ i \in 1..Len(worker)
  /\ worker[i].st = "fallback"
  /\ \E content \in WorkerTexts :
       Resolve(i, Typed(FallbackExecuteResult(strategies[i].approach, content), "search"))

\* the fallback llmCall rejects
FallbackFail(i) ==
  /\ i \in 1..Len(worker)
  /\ worker[i].st = "fallback"
  /\ Reject(i)

\* the synthesis llmCall returns: orchestrate resolves
SynthesisReturn ==
  /\ phase = "synthesizing"
  /\ \E text \in SynthesisTexts : llmCallAccepts(text) /\ synthesis' = text
  /\ callLogs' = LogCall(callLogs, active, "llm")
  /\ phase' = "done"
  /\ UNCHANGED <<codec, active, other, ops, version, options, task, response, strategies, worker, settled, uploadedFiles,
                 uploadIdx, created, calls, results, error>>

\* variant: a rejected synthesis call is issued again
SynthesisFail_retry ==
  /\ phase = "synthesizing"
  /\ calls' = [calls EXCEPT !.synthesis = @ + 1]
  /\ UNCHANGED <<codec, callLogs, active, other, ops, version, options, task, phase, response,
                 strategies, worker, settled, uploadedFiles, uploadIdx, created, results,
                 synthesis, error>>

\* variant: a rejected synthesis call yields a result without synthesis
SynthesisFail_partial ==
  /\ phase = "synthesizing"
  /\ phase' = "done"
  /\ UNCHANGED <<codec, callLogs, active, other, ops, version, options, task, response,
                 strategies, worker, settled, uploadedFiles, uploadIdx, created, calls,
                 results, synthesis, error>>

\* the synthesis llmCall rejects
SynthesisFail ==
  /\ phase = "synthesizing"
  /\ phase' = "failed"
  /\ error' = [kind |-> "synthesis-call", idx |-> 0]
  /\ UNCHANGED <<codec, callLogs, active, other, ops, version, options, task, response, strategies, worker, settled, uploadedFiles,
                 uploadIdx, created, calls, results, synthesis>>

Next ==
  \/ Orchestrate
  \/ DecomposeFail
  \/ DecomposeReturn
  \/ UploadSettle
  \/ \E i \in 1..(MaxStrategies + 1) : WorkerReturn(i)
  \/ \E i \in 1..(MaxStrategies + 1) : WorkerFail(i)
  \/ \E i \in 1..(MaxStrategies + 1) : SearchReturn(i)
  \/ \E i \in 1..(MaxStrategies + 1) : SearchFail(i)
  \/ \E i \in 1..(MaxStrategies + 1) : FallbackReturn(i)
  \/ \E i \in 1..(MaxStrategies + 1) : FallbackFail(i)
  \/ SynthesisReturn
  \/ SynthesisFail

Spec == Init /\ [][Next]_vars

\* --------------------------------------------- two orchestrate calls
\* Two orchestrate calls are in progress on orchestrators that share one
\* connector. Everything a call holds (its orchestrator's options, its
\* locals, the workers it constructed) is in the variables of Spec for
\* the call whose callback is running and in `other` for the call that
\* is waiting; callLogs belongs to the connector.
RunState ==
  [version |-> version, options |-> options, task |-> task, phase |-> phase,
   response |-> response, strategies |-> strategies, worker |-> worker,
   settled |-> settled, uploadedFiles |-> uploadedFiles, uploadIdx |-> uploadIdx,
   created |-> created, calls |-> calls, results |-> results,
   synthesis |-> synthesis, error |-> error]

TwoRunInit ==
  /\ version = "v3"
  /\ options \in {o \in OptionSets("v3") : o.documents \in TwoRunDocuments}
  /\ task = <<"Find", "the", "founder">>
  /\ phase = "idle"
  /\ response = Undefined
  /\ strategies = <<>>
  /\ worker = <<>>
  /\ settled = <<>>
  /\ uploadedFiles = <<>>
  /\ uploadIdx = 0
  /\ created = [simple |-> 0, search |-> 0, librarian |-> 0]
  /\ calls = NoCalls
  /\ results = <<>>
  /\ synthesis = Undefined
  /\ error = NoError
  /\ callLogs = <<>>
  /\ active = 1
  /\ \E o \in {o \in OptionSets("v3") : o.documents \in TwoRunDocuments} :
       other = [RunState EXCEPT !.options = o]
  /\ ops = <<>>
  /\ codec = NoCodec

\* the event loop runs a callback of the other call next
Switch ==
  /\ other # NoRun
  /\ active' = 3 - active
  /\ other' = RunState
  /\ version' = other.version
  /\ options' = other.options
  /\ task' = other.task
  /\ phase' = other.phase
  /\ response' = other.response
  /\ strategies' = other.strategies
  /\ worker' = other.worker
  /\ settled' = other.settled
  /\ uploadedFiles' = other.uploadedFiles
  /\ uploadIdx' = other.uploadIdx
  /\ created' = other.created
  /\ calls' = other.calls
  /\ results' = other.results
  /\ synthesis' = other.synthesis
  /\ error' = other.error
  /\ UNCHANGED <<callLogs, ops, codec>>

TwoRunNext ==
  \/ Orchestrate
  \/ DecomposeFail
  \/ DecomposeReturn
  \/ UploadSettle
  \/ \E i \in 1..(MaxStrategies + 1) : WorkerReturn(i)
  \/ \E i \in 1..(MaxStrategies + 1) : WorkerFail(i)
  \/ \E i \in 1..(MaxStrategies + 1) : SearchReturn(i)
  \/ \E i \in 1..(MaxStrategies + 1) : SearchFail(i)
  \/ \E i \in 1..(MaxStrategies + 1) : FallbackReturn(i)
  \/ \E i \in 1..(MaxStrategies + 1) : FallbackFail(i)
  \/ SynthesisReturn
  \/ SynthesisFail
  \/ Switch

TwoRunSpec == TwoRunInit /\ [][TwoRunNext]_vars

\* ------------------------------------------- a LibrarianWorker on its own
\* One LibrarianWorker is constructed over options.documents and a caller
\* calls its methods one after another, awaiting each. ops records the
\* calls: the method, how it ended, and how many files the worker held
\* when it was called.
Op(name, outcome) == [op |-> name, outcome |-> outcome, held |-> Len(uploadedFiles)]

\* the pending method call settles
Finish(outcome) ==
  LET n == CHOOSE n \in 1..Len(ops) : ops[n].outcome = "pending"
  IN [ops EXCEPT ![n].outcome = outcome]

\* the final test of initialize
InitializeOutcome(up) == IF up = <<>> THEN "no-uploads" ELSE "ok"

WorkerInit ==
  /\ version = "none"
  /\ options \in [workerType : {"auto"}, enableWebSearch : {FALSE},
                  enableLibrarian : {FALSE}, documents : WorkerDocumentLists]
  /\ task = <<"Find", "the", "founder">>
  /\ phase = "idle"
  /\ response = Undefined
  /\ strategies = <<>>
  /\ worker = <<>>
  /\ settled = <<>>
  /\ uploadedFiles = <<>>
  /\ uploadIdx = 0
  /\ created = [simple |-> 0, search |-> 0, librarian |-> 1]
  /\ calls = NoCalls
  /\ results = <<>>
  /\ synthesis = Undefined
  /\ error = NoError
  /\ callLogs = <<>>
  /\ active = 1
  /\ other = NoRun
  /\ ops = <<>>
  /\ codec = NoCodec

\* initialize() is called: the empty-list test, then the loop up to its
\* first upload call
LibrarianInitialize ==
  /\ phase = "idle"
  /\ Len(ops) < MaxOps
  /\ LET k == NextUpload(options.documents, 1)
     IN IF Len(options.documents) = 0
        THEN /\ ops' = Append(ops, Op("initialize", "no-paths"))
             /\ UNCHANGED <<phase, uploadIdx, calls>>
        ELSE IF k = 0
        THEN /\ ops' = Append(ops, Op("initialize", InitializeOutcome(uploadedFiles)))
             /\ UNCHANGED <<phase, uploadIdx, calls>>
        ELSE /\ ops' = Append(ops, Op("initialize", "pending"))
             /\ phase' = "initializing"
             /\ uploadIdx' = k
             /\ calls' = [calls EXCEPT !.upload = @ + 1]
  /\ UNCHANGED <<codec, callLogs, active, other, version, options, task, response, strategies,
                 worker, settled, uploadedFiles, created, results, synthesis, error>>

\* variant: the first failed upload ends initialize
LibrarianUploadSettle_abort ==
  /\ phase = "initializing"
  /\ \E ok \in BOOLEAN :
       LET up == IF ok THEN Append(uploadedFiles, UploadedFile(options.documents[uploadIdx]))
                 ELSE uploadedFiles
           k == IF ok THEN NextUpload(options.documents, uploadIdx + 1) ELSE 0
       IN /\ uploadedFiles' = up
          /\ IF k # 0
             THEN /\ uploadIdx' = k
                  /\ calls' = [calls EXCEPT !.upload = @ + 1]
                  /\ UNCHANGED <<phase, ops>>
             ELSE /\ uploadIdx' = 0
                  /\ phase' = "idle"
                  /\ ops' = Finish(InitializeOutcome(up))
                  /\ UNCHANGED calls
  /\ UNCHANGED <<codec, callLogs, active, other, version, options, task, response, strategies,
                 worker, settled, created, results, synthesis, error>>

\* connector.uploadFile settles: push the record or warn and skip, go on
\* with the next path that passes validation, finish after the last one
LibrarianUploadSettle ==
  /\ phase = "initializing"
  /\ \E ok \in BOOLEAN :
       LET up == IF ok THEN Append(uploadedFiles, UploadedFile(options.documents[uploadIdx]))
                 ELSE uploadedFiles
           k == NextUpload(options.documents, uploadIdx + 1)
       IN /\ uploadedFiles' = up
          /\ IF k # 0
             THEN /\ uploadIdx' = k
                  /\ calls' = [calls EXCEPT !.upload = @ + 1]
                  /\ UNCHANGED <<phase, ops>>
             ELSE /\ uploadIdx' = 0
                  /\ phase' = "idle"
                  /\ ops' = Finish(InitializeOutcome(up))
                  /\ UNCHANGED calls
  /\ UNCHANGED <<codec, callLogs, active, other, version, options, task, response, strategies,
                 worker, settled, created, results, synthesis, error>>

\* variant: execute issues its call whatever the worker holds
LibrarianExecute_nocheck ==
  /\ phase = "idle"
  /\ Len(ops) < MaxOps
  /\ ops' = Append(ops, Op("execute", "pending"))
  /\ phase' = "executing"
  /\ worker' = <<[kind |-> "librarian", st |-> "call",
                        ids |-> FileIds(uploadedFiles), res |-> NoResult]>>
  /\ calls' = [calls EXCEPT !.filebased = @ + 1]
  /\ UNCHANGED <<codec, callLogs, active, other, version, options, task, response, strategies,
                 settled, uploadedFiles, uploadIdx, created, results, synthesis, error>>

\* execute(task, approach, description) is called: the not-initialized
\* test, then the fileBasedCall
LibrarianExecute ==
  /\ phase = "idle"
  /\ Len(ops) < MaxOps
  /\ IF Len(uploadedFiles) = 0
     THEN /\ ops' = Append(ops, Op("execute", "not-initialized"))
          /\ UNCHANGED <<phase, worker, calls>>
     ELSE /\ ops' = Append(ops, Op("execute", "pending"))
          /\ phase' = "executing"
          /\ worker' = <<[kind |-> "librarian", st |-> "call",
                        ids |-> FileIds(uploadedFiles), res |-> NoResult]>>
          /\ calls' = [calls EXCEPT !.filebased = @ + 1]
  /\ UNCHANGED <<codec, callLogs, active, other, version, options, task, response, strategies,
                 settled, uploadedFiles, uploadIdx, created, results, synthesis, error>>

\* fileBasedCall returns: execute fulfils with its result
LibrarianExecuteReturn ==
  /\ phase = "executing"
  /\ \E content \in WorkerTexts :
       results' = <<LibrarianExecuteResult("A1", content, uploadedFiles)>>
  /\ callLogs' = LogCall(callLogs, active, "filebased")
  /\ worker' = <<>>
  /\ phase' = "idle"
  /\ ops' = Finish("ok")
  /\ UNCHANGED <<codec, active, other, version, options, task, response, strategies, settled,
                 uploadedFiles, uploadIdx, created, calls, synthesis, error>>

\* fileBasedCall rejects: execute rethrows
LibrarianExecuteFail ==
  /\ phase = "executing"
  /\ worker' = <<>>
  /\ phase' = "idle"
  /\ ops' = Finish("call-failed")
  /\ UNCHANGED <<codec, callLogs, active, other, version, options, task, response, strategies,
                 settled, uploadedFiles, uploadIdx, created, calls, results, synthesis, error>>

\* getUploadedFiles() returns a copy of the records (held of them)
LibrarianGetUploadedFiles ==
  /\ phase = "idle"
  /\ Len(ops) < MaxOps
  /\ ops' = Append(ops, Op("getUploadedFiles", "ok"))
  /\ UNCHANGED <<codec, callLogs, active, other, version, options, task, phase, response,
                 strategies, worker, settled, uploadedFiles, uploadIdx, created, calls,
                 results, synthesis, error>>

\* variant: cleanup leaves the records in place
LibrarianCleanup_keep ==
  /\ phase \in {"idle", "executing"}
  /\ Len(ops) < MaxOps
  /\ ops' = Append(ops, Op("cleanup", "ok"))
  /\ UNCHANGED <<codec, callLogs, active, other, version, options, task, phase, response,
                 strategies, worker, settled, uploadedFiles, uploadIdx, created, calls,
                 results, synthesis, error>>

\* cleanup() empties the record list; it has no await, so it may also be
\* called while an execute waits for its fileBasedCall
LibrarianCleanup ==
  /\ phase \in {"idle", "executing"}
  /\ Len(ops) < MaxOps
  /\ uploadedFiles' = <<>>
  /\ ops' = Append(ops, Op("cleanup", "ok"))
  /\ UNCHANGED <<codec, callLogs, active, other, version, options, task, phase, response,
                 strategies, worker, settled, uploadIdx, created, calls, results, synthesis,
                 error>>

WorkerNext ==
  \/ LibrarianInitialize
  \/ LibrarianUploadSettle
  \/ LibrarianExecute
  \/ LibrarianExecuteReturn
  \/ LibrarianExecuteFail
  \/ LibrarianGetUploadedFiles
  \/ LibrarianCleanup

WorkerSpec == WorkerInit /\ [][WorkerNext]_vars

\* ================================================================ claims
InFlight(i) == worker[i].st \in {"call", "fallback"}

\* C1: for every successful orchestrate call, in every worker mode and for
\* every completion order of the worker calls, results has one entry per
\* strategy and results[i].approach = strategies[i].approach.
C1_ResultsFollowStrategies ==
  phase = "done" =>
    /\ Len(results) = Len(strategies)
    /\ \A i \in 1..Len(strategies) : results[i].approach = strategies[i].approach

\* a successful run whose second worker settled before its first
C1_Witness ==
  /\ phase = "done"
  /\ Len(strategies) >= 2
  /\ settled[1] = 2
  /\ strategies[1].approach # strategies[2].approach

\* C2: the synthesis call is issued only after every worker execution of
\* the run has completed successfully; never while one is in flight or
\* has failed.
C2_SynthesisAfterAllWorkers ==
  calls.synthesis > 0 =>
    /\ Len(worker) = Len(strategies)
    /\ Len(worker) > 0
    /\ \A i \in 1..Len(worker) : worker[i].st = "resolved"

\* the synthesis call is in flight after two or more worker executions
C2_Witness ==
  /\ phase = "synthesizing"
  /\ calls.synthesis = 1
  /\ Len(worker) >= 2

\* C3 as claimed: orchestrate does not report a worker failure until every
\* dispatched worker execution has settled.
C3_FailureWaitsForAll ==
  (phase = "failed" /\ error.kind = "worker") =>
    \A i \in 1..Len(worker) : ~InFlight(i)

\* C3 amended: orchestrate fails at the first rejection of a worker
\* execution, without waiting for the executions still in flight, and the
\* error it propagates is that first rejection, whatever settles later.
C3_FailsAtFirstRejection ==
  /\ (\E i \in 1..Len(worker) : worker[i].st = "rejected") =>
        (phase = "failed" /\ error.kind = "worker")
  /\ error.kind = "worker" =>
        \E k \in 1..Len(settled) :
          /\ settled[k] = error.idx
          /\ worker[settled[k]].st = "rejected"
          /\ \A j \in 1..(k - 1) : worker[settled[j]].st = "resolved"

\* the run has failed on one rejection, another worker rejected afterwards
C3_Witness ==
  /\ phase = "failed"
  /\ error.kind = "worker"
  /\ Len(settled) >= 2
  /\ worker[settled[1]].st = "rejected"
  /\ worker[settled[2]].st = "rejected"

\* C4: if the execution of any single strategy fails, the whole call
\* fails: no synthesis call, no result, however many others succeeded.
C4_OneFailureFailsRun ==
  (\E i \in 1..Len(worker) : worker[i].st = "rejected") =>
    /\ phase = "failed"
    /\ calls.synthesis = 0
    /\ results = <<>>
    /\ synthesis = Undefined

\* one execution failed (a search worker, after its fallback) while
\* another of the same run succeeded
C4_Witness ==
  /\ \E i \in 1..Len(worker) :
       worker[i].st = "rejected" /\ worker[i].kind = "search"
  /\ \E i \in 1..Len(worker) : worker[i].st = "resolved"
  /\ calls.fallback > 0

\* the parser the running orchestrator version uses
ParseOf(text) ==
  IF version = "v3" THEN parseSubtaskStrategies(text)
  ELSE parseSubtaskStrategiesPairs(text)

\* C5: if parsing the decomposition response yields zero strategies,
\* orchestrate fails with the decomposition error and the run creates no
\* worker, uploads nothing and makes no worker or synthesis call.
C5_NoStrategiesFailsClean ==
  /\ [][(phase = "decomposing" /\ response' # Undefined
           /\ Len(ParseOf(response')) = 0)
         => (phase' = "failed" /\ error'.kind = "decomposition")]_vars
  /\ [](error.kind = "decomposition" =>
          /\ phase = "failed"
          /\ response # Undefined
          /\ created = [simple |-> 0, search |-> 0, librarian |-> 0]
          /\ calls = [NoCalls EXCEPT !.decompose = 1]
          /\ worker = <<>>
          /\ uploadedFiles = <<>>)

\* a non-empty response (an approach without description) parsed to nothing
\* in a run configured so that a librarian would otherwise be created
C5_Witness ==
  /\ response \notin {Undefined, <<>>}
  /\ Len(ParseOf(response)) = 0
  /\ phase = "failed"
  /\ Len(options.documents) > 0

\* C6 as claimed: with the librarian override and an empty document list
\* orchestrate fails with the configuration error before any generation
\* call, the decomposition call included, is made.
C6_ConfigErrorBeforeAnyCall ==
  (version = "v2" /\ options.workerType = "librarian"
     /\ options.documents = <<>> /\ phase # "idle") =>
    /\ phase = "failed"
    /\ error.kind = "config"
    /\ calls = NoCalls

\* C7: in hinting mode with no documents configured, every strategy hinted
\* librarian is executed by the simple worker, no librarian worker is
\* created or initialized, nothing is uploaded, the downgrade raises no
\* configuration or initialization error, and a completed run carries a
\* result of workerType 'simple' for that strategy.
C7_HintDowngradeWithoutDocuments ==
  (version = "v3" /\ options.documents = <<>>) =>
    /\ created.librarian = 0
    /\ calls.upload = 0
    /\ calls.filebased = 0
    /\ phase # "initializing"
    /\ error.kind \notin {"config", "init"}
    /\ \A i \in 1..Len(worker) :
         strategies[i].agentType = "librarian" =>
           /\ worker[i].kind = "simple"
           /\ phase = "done" => results[i].workerType = "simple"

\* a completed hinting run without documents that had a librarian hint
C7_Witness ==
  /\ version = "v3"
  /\ options.documents = <<>>
  /\ phase = "done"
  /\ \E i \in 1..Len(strategies) :
       strategies[i].agentType = "librarian" /\ results[i].workerType = "simple"

\* LibrarianWorker.initialize has thrown: the worker was constructed, its
\* upload loop is over and nothing was uploaded
InitializeFailed ==
  created.librarian > 0 /\ phase # "initializing" /\ uploadedFiles = <<>>

AutoMode ==
  /\ version = "v2"
  /\ options.workerType = "auto"
  /\ ~options.enableLibrarian
  /\ ~options.enableWebSearch

\* C8 as claimed: a failed initialize does not abort the run, neither with
\* per-strategy hints nor when the auto heuristic selected the librarian.
C8_InitFailureNeverAborts ==
  (InitializeFailed /\ (version = "v3" \/ AutoMode)) =>
    /\ error.kind # "init"
    /\ Len(worker) = Len(strategies)

\* C8 amended: with per-strategy hints a failed initialize does not abort
\* the run; every strategy hinted librarian runs on the simple worker and
\* every other strategy on the worker it was hinted.  When the librarian
\* was selected for the whole run (auto heuristic, override or flag) the
\* failed initialize aborts the run before any worker call.
C8_InitFailureDowngradesHintsOnly ==
  /\ (InitializeFailed /\ version = "v3") =>
       /\ error.kind # "init"
       /\ Len(worker) = Len(strategies)
       /\ \A i \in 1..Len(worker) :
            worker[i].kind = IF strategies[i].agentType = "librarian"
                             THEN "simple" ELSE strategies[i].agentType
       /\ phase = "done" =>
            \A i \in 1..Len(results) : results[i].workerType = worker[i].kind
  /\ (InitializeFailed /\ version = "v2") =>
       /\ phase = "failed"
       /\ error.kind = "init"
       /\ worker = <<>>
       /\ calls.worker + calls.websearch + calls.filebased + calls.synthesis = 0

\* a hinting run completed after every upload failed, with one strategy
\* downgraded and another one served by the search worker
C8_Witness ==
  /\ version = "v3"
  /\ InitializeFailed
  /\ calls.upload > 0
  /\ phase = "done"
  /\ \E i \in 1..Len(strategies) :
       strategies[i].agentType = "librarian" /\ results[i].workerType = "simple"
  /\ \E i \in 1..Len(strategies) : results[i].workerType = "search"

FixedOverride == version = "v2" /\ options.workerType \in AgentTypes

\* C9 as claimed: with a fixed override every results[i].workerType equals
\* the override, whatever the enableWebSearch and enableLibrarian flags.
C9_OverrideAlwaysWins ==
  (FixedOverride /\ phase = "done") =>
    \A i \in 1..Len(results) : results[i].workerType = options.workerType

\* C9 amended: with a fixed override every strategy of the run is executed
\* by one capability: librarian if the override is librarian or the
\* enableLibrarian flag is set; otherwise search if the override is search
\* or the enableWebSearch flag is set; otherwise simple.  So the override
\* decides unless a flag of a capability tested earlier is set.
C9_OverrideUnlessFlag ==
  FixedOverride =>
    LET cap == IF options.enableLibrarian THEN "librarian"
               ELSE IF options.workerType = "librarian" THEN "librarian"
               ELSE IF options.enableWebSearch THEN "search"
               ELSE options.workerType
    IN /\ \A i \in 1..Len(worker) : worker[i].kind = cap
       /\ phase = "done" =>
            /\ Len(results) = Len(strategies)
            /\ \A i \in 1..Len(results) : results[i].workerType = cap
       /\ (~options.enableLibrarian /\ ~options.enableWebSearch /\ phase = "done") =>
            \A i \in 1..Len(results) : results[i].workerType = options.workerType

\* a completed run under the 'simple' override with both flags off, on a
\* task the auto heuristic would have sent to the search worker
C9_Witness ==
  /\ FixedOverride
  /\ options.workerType = "simple"
  /\ ~options.enableLibrarian
  /\ ~options.enableWebSearch
  /\ task = <<"Summarize", "RECENT", "advances">>
  /\ phase = "done"
  /\ Len(results) >= 2
  /\ \A i \in 1..Len(results) : results[i].workerType = "simple"

\* the rule order of the auto heuristic, read off the task as given
RecencyWords ==
  {"current", "latest", "recent", "today", "now", "2024", "2025",
   "news", "price", "stock", "weather", "trends"}

ComplexityWords == {"complex", "detailed", "comprehensive", "analysis"}

HasWord(t, wordSet) == \E i \in 1..Len(t) : ToLowerWord(t[i]) \in wordSet

AutoCapability ==
  IF options.documents # <<>> THEN "librarian"
  ELSE IF HasWord(task, RecencyWords) THEN "search"
  ELSE IF TextLength(task) < 100 /\ ~HasWord(task, ComplexityWords) THEN "simple"
  ELSE "search"

\* C10: in auto mode the capability of the run is the first match of:
\* documents configured -> librarian; recency keyword in the task ->
\* search; task under 100 characters without complexity keyword ->
\* simple; otherwise search.  Every strategy of the run gets it.
C10_AutoHeuristic ==
  (AutoMode /\ Len(strategies) > 0) =>
    /\ created = [[simple |-> 0, search |-> 0, librarian |-> 0]
                    EXCEPT ![AutoCapability] = 1]
    /\ \A i \in 1..Len(worker) : worker[i].kind = AutoCapability
    /\ phase = "done" =>
         /\ Len(results) = Len(strategies)
         /\ \A i \in 1..Len(results) : results[i].workerType = AutoCapability

\* the 'recent' task without documents: two strategies, both on search
C10_Witness ==
  /\ AutoMode
  /\ options.documents = <<>>
  /\ task = <<"Summarize", "RECENT", "advances">>
  /\ phase = "done"
  /\ Len(results) = 2
  /\ \A i \in 1..2 : results[i].workerType = "search"

\* ------------------------------------------------------------------ C11
\* positions of the configured paths that pass validation
UploadablePaths(filePaths) == {k \in 1..Len(filePaths) : Uploadable(filePaths[k])}

\* C11: a run constructs at most one worker instance per capability, every
\* strategy routed to a capability runs on that instance, and every entry
\* of the configured path list has at most one upload call in the run,
\* however many strategies are routed to the librarian.
C11_OneInstancePerCapability ==
  /\ \A c \in {"simple", "search", "librarian"} : created[c] <= 1
  /\ \A i \in 1..Len(worker) :
       worker[i].kind # "llm" => created[worker[i].kind] = 1
  /\ IF phase = "initializing"
     THEN calls.upload =
            Cardinality({k \in UploadablePaths(options.documents) : k <= uploadIdx})
     ELSE calls.upload \in {0, Cardinality(UploadablePaths(options.documents))}
  /\ Len(uploadedFiles) <= calls.upload

C11_Witness ==
  /\ Len(worker) = 2
  /\ worker[1].kind = "librarian" /\ worker[2].kind = "librarian"
  /\ Len(options.documents) = 2
  /\ calls.upload = 1
  /\ created.librarian = 1

\* ------------------------------------------------------------------ C12
\* C12: when the web search call of a search worker execution fails, the
\* run is not failed by it; when the fallback call then returns, the
\* execution fulfils with a result that ends with the training-data
\* disclaimer, has no sources and has searchPerformed false, and that is
\* the result the run reports for the strategy.
C12_FallbackSucceeds ==
  [][\A i \in 1..Len(worker) :
       /\ (worker[i].kind = "search" /\ worker[i].st = "call" /\ worker'[i].st = "fallback")
            => (phase' = phase /\ error' = error)
       /\ (worker[i].st = "fallback" /\ worker'[i].st = "resolved")
            => LET r == worker'[i].res
               IN /\ Len(r.result) > 0
                  /\ r.result[Len(r.result)] = Disclaimer
                  /\ r.sources = Undefined
                  /\ r.searchPerformed = "false"
                  /\ error' = error
                  /\ phase' \in {phase, "synthesizing"}
                  /\ (phase = "dispatching" /\ phase' = "synthesizing")
                       => /\ results'[i].result = r.result
                          /\ results'[i].sources = Undefined
                          /\ results'[i].searchPerformed = "false"]_vars

C12_Witness ==
  /\ phase = "done"
  /\ calls.fallback >= 1
  /\ \E i \in 1..Len(results) :
       /\ worker[i].kind = "search"
       /\ results[i].searchPerformed = "false"
       /\ results[i].sources = Undefined
       /\ results[i].result[Len(results[i].result)] = Disclaimer

\* ------------------------------------------------------------------ C13
\* the search execution took, or is in, its catch branch
ViaFallback(w) ==
  /\ w.kind = "search"
  /\ \/ w.st \in {"fallback", "rejected"}
     \/ w.st = "resolved" /\ w.res.searchPerformed = "false"

\* worker executions that issued the one call of their class
Issued(kinds) == Cardinality({i \in 1..Len(worker) : worker[i].kind \in kinds})

\* C13: no call is repeated. The run has made exactly one decomposition
\* call once started and at most one synthesis call; every search
\* execution has made exactly one web search call and at most one fallback
\* call, the fallback only after the web search call failed and a failed
\* fallback rejecting the execution; every other execution has made exactly
\* one generation call; n strategies make at most 2n worker calls.
C13_NoRetries ==
  /\ calls.decompose = (IF phase = "idle" THEN 0 ELSE 1)
  /\ calls.synthesis <= 1
  /\ calls.synthesis = 1 <=>
       (phase \in {"synthesizing", "done"} \/ error.kind = "synthesis-call")
  /\ calls.websearch = Issued({"search"})
  /\ calls.fallback = Cardinality({i \in 1..Len(worker) : ViaFallback(worker[i])})
  /\ calls.worker = Issued({"llm", "simple"})
  /\ calls.filebased = Issued({"librarian"})
  /\ \A i \in 1..Len(worker) :
       (worker[i].kind # "search" /\ worker[i].st = "resolved")
         => worker[i].res.searchPerformed = "undefined"
  /\ calls.worker + calls.websearch + calls.fallback + calls.filebased
       <= 2 * Len(strategies)

C13_Witness ==
  /\ Len(strategies) = 2
  /\ calls.websearch = 2
  /\ calls.fallback = 2
  /\ worker[1].st = "rejected"
  /\ worker[2].st = "resolved"

\* ------------------------------------------------------------------ C14
\* finished calls of one method, in ops
CallsOf(name) == {n \in 1..Len(ops) : ops[n].op = name /\ ops[n].outcome # "pending"}

\* C14: initialize skips a path whose validation or upload fails and goes
\* on with the rest: once it has finished, every path that passes
\* validation has had its upload call, whatever the earlier uploads did. It
\* fails on an empty path list, and otherwise succeeds exactly when the
\* worker holds at least one uploaded file at the end; called on a worker
\* holding none, exactly when at least one upload of this call succeeded.
C14_InitializeToleratesFailures ==
  /\ phase = "idle" =>
       calls.upload = Cardinality(CallsOf("initialize"))
                        * Cardinality(UploadablePaths(options.documents))
  /\ \A n \in CallsOf("initialize") :
       /\ ops[n].outcome = "no-paths" <=> Len(options.documents) = 0
       /\ ops[n].outcome \in {"ok", "no-paths", "no-uploads"}
       /\ n = Len(ops) =>
            /\ ops[n].outcome = "ok" <=> Len(uploadedFiles) > 0
            /\ ops[n].held = 0 =>
                 (ops[n].outcome = "ok" <=> Len(uploadedFiles) - ops[n].held >= 1)

C14_Witness ==
  /\ Len(ops) = 1
  /\ ops[1].op = "initialize"
  /\ ops[1].outcome = "ok"
  /\ Len(options.documents) = 2
  /\ calls.upload = 2
  /\ Len(uploadedFiles) = 1
  /\ uploadedFiles[1] = UploadedFile(options.documents[2])

\* ------------------------------------------------------------------ C15
\* C15: an execute called on a worker that holds no uploaded file (never
\* initialized, initialize failed, or emptied by cleanup) fails with the
\* not-initialized error, and only such an execute does; it issues no
\* generation call, so the file-based calls issued are exactly those of the
\* executes that found at least one file.
C15_ExecuteNeedsUploadedFile ==
  /\ \A n \in 1..Len(ops) :
       ops[n].op = "execute" =>
         (ops[n].outcome = "not-initialized" <=> ops[n].held = 0)
  /\ calls.filebased =
       Cardinality({n \in 1..Len(ops) : ops[n].op = "execute" /\ ops[n].held > 0})

C15_Witness ==
  /\ Len(ops) = 3
  /\ ops[1].op = "initialize" /\ ops[1].outcome = "ok"
  /\ ops[2].op = "cleanup"
  /\ ops[3].op = "execute" /\ ops[3].outcome = "not-initialized"
  /\ calls.filebased = 0

\* ------------------------------------------------------------------ C16
\* Decomposing, Dispatching (the librarian's initialize included),
\* Synthesizing, Done, Failed, and the moves between them
PhaseMoves ==
  { <<"idle", "decomposing">>,
    <<"decomposing", "initializing">>, <<"decomposing", "dispatching">>,
    <<"decomposing", "failed">>,
    <<"initializing", "initializing">>, <<"initializing", "dispatching">>,
    <<"initializing", "failed">>,
    <<"dispatching", "dispatching">>, <<"dispatching", "synthesizing">>,
    <<"dispatching", "failed">>,
    <<"synthesizing", "done">>, <<"synthesizing", "failed">>,
    <<"failed", "failed">> }

\* one decomposition call, finished before anything is routed; the one
\* synthesis call only after every worker execution has fulfilled
PhaseOrder ==
  /\ phase # "idle" => calls.decompose = 1
  /\ phase \in {"idle", "decomposing"} =>
       /\ worker = <<>>
       /\ created = [simple |-> 0, search |-> 0, librarian |-> 0]
       /\ calls = [NoCalls EXCEPT !.decompose = calls.decompose]
  /\ phase = "initializing" => worker = <<>>
  /\ calls.synthesis > 0 =>
       /\ calls.synthesis = 1
       /\ \A i \in 1..Len(worker) : worker[i].st = "resolved"
  /\ phase = "done" => calls.synthesis = 1

\* C16 as stated: the phases follow the order above, and in Done and in
\* Failed the run issues no collaborator call.
C16_NoCallAfterDoneOrFailed ==
  /\ []PhaseOrder
  /\ [][/\ <<phase, phase'>> \in PhaseMoves
        /\ phase \in {"done", "failed"} => calls' = calls]_vars

\* C16, amended: the phases follow the order above; Done and Failed are
\* never left; no call is issued in Done; in Failed the only call a step
\* can issue is the fallback call of a search execution that was in flight
\* when the run failed and whose web search call has now failed.
C16_PhaseOrderAndTerminals ==
  /\ []PhaseOrder
  /\ [][/\ <<phase, phase'>> \in PhaseMoves
        /\ phase = "done" => calls' = calls
        /\ phase = "failed" =>
             \/ calls' = calls
             \/ /\ calls' = [calls EXCEPT !.fallback = @ + 1]
                /\ \E i \in 1..Len(worker) :
                     /\ worker[i].kind = "search"
                     /\ worker[i].st = "call"
                     /\ worker'[i].st = "fallback"]_vars

C16_Witness ==
  /\ phase = "failed"
  /\ error.kind = "worker"
  /\ Len(worker) = 2
  /\ worker[error.idx].st = "rejected"
  /\ worker[error.idx].kind = "simple"
  /\ \E i \in 1..Len(worker) : worker[i].st = "fallback"
  /\ calls.fallback = 1

\* ------------------------------------------------------------------ C17
\* C17: a run whose decomposition call, one of whose worker executions, or
\* whose synthesis call failed is failed, with exactly one error that is
\* never replaced, and returns nothing; a run that returns has strategies,
\* one result per strategy and a synthesis, and none of its calls failed.
C17_FailureAbortsWholeCall ==
  /\ [](/\ phase = "failed" <=> error # NoError
        /\ phase = "failed" => synthesis = Undefined
        /\ (phase # "decomposing" /\ calls.decompose = 1 /\ response = Undefined)
             => (phase = "failed" /\ error.kind = "decompose-call")
        /\ (\E i \in 1..Len(worker) : worker[i].st = "rejected")
             => (phase = "failed" /\ error.kind = "worker"
                 /\ worker[error.idx].st = "rejected")
        /\ (phase # "synthesizing" /\ calls.synthesis = 1 /\ synthesis = Undefined)
             => (phase = "failed" /\ error.kind = "synthesis-call")
        /\ phase = "done" =>
             /\ Len(strategies) >= 1
             /\ Len(results) = Len(strategies)
             /\ \A i \in 1..Len(results) : results[i].approach = strategies[i].approach
             /\ synthesis # Undefined
             /\ \A i \in 1..Len(worker) : worker[i].st = "resolved")
  /\ [][error # NoError => error' = error]_vars

C17_Witness ==
  /\ phase = "failed"
  /\ error.kind = "synthesis-call"
  /\ Len(results) = 2
  /\ synthesis = Undefined

\* ------------------------------------------------------------------ C18
\* C18: in every run that returns, every results[i].result is non-empty,
\* whichever worker produced it and whatever text its call returned.
C18_ResultsNonEmpty ==
  phase = "done" => \A i \in 1..Len(results) : results[i].result # <<>>

\* ------------------------------------------------------------------ C19
\* C19: in every run that returns, synthesis is non-empty and is the text
\* the synthesis call returned, tags included: nothing is extracted from it.
C19_SynthesisIsRawText ==
  phase = "done" =>
    /\ synthesis # <<>>
    /\ synthesis # Undefined
    /\ synthesis \in SynthesisTexts

C19_Witness ==
  /\ phase = "done"
  /\ synthesis = <<"final", OpenTag("result"), "x", CloseTag("result")>>
  /\ extractSingleXml(synthesis, "result") = <<"x">>

\* ------------------------------------------------------------------ C20
\* log entries pushed on behalf of one call
LoggedBy(run) == Cardinality({n \in 1..Len(callLogs) : callLogs[n].run = run})

\* collaborator calls of a call's state r that have returned
Returned(r) ==
  (IF r.response # Undefined THEN 1 ELSE 0)
  + Cardinality({i \in 1..Len(r.worker) : r.worker[i].st = "resolved"})
  + (IF r.synthesis # Undefined THEN 1 ELSE 0)

\* the running call is as it would be alone: its workers, its call
\* counters and its uploaded files follow from its own options and
\* strategies
OwnState ==
  /\ C11_OneInstancePerCapability
  /\ C13_NoRetries
  /\ PhaseOrder
  /\ \A n \in 1..Len(uploadedFiles) :
       \E k \in 1..Len(options.documents) :
         uploadedFiles[n] = UploadedFile(options.documents[k])
  /\ phase = "done" =>
       /\ Len(results) = Len(strategies)
       /\ results = [i \in 1..Len(worker) |-> worker[i].res]

\* a callback of one call leaves the other call's state alone; a change of
\* the running call changes nothing else
Frame ==
  /\ active' = active => other' = other
  /\ active' # active => (other' = RunState /\ RunState' = other /\ callLogs' = callLogs)

MaxPieces == 3

CodecTags == {"t", "u"}

\* what the texts handed to extractXml are made of: single tokens and
\* whole spans (plain, padded, spanning two lines)
Pieces ==
  { <<OpenTag("t")>>, <<CloseTag("t")>>, <<OpenTag("u")>>, <<CloseTag("u")>>,
    <<"a">>, <<" ">>, <<"\n">>,
    <<OpenTag("t"), "a", CloseTag("t")>>,
    <<OpenTag("t"), " ", "b", " ", CloseTag("t")>>,
    <<OpenTag("t"), "a", "\n", "b", CloseTag("t")>> }

RECURSIVE Concat(_)
Concat(ps) == IF ps = <<>> THEN <<>> ELSE Head(ps) \o Concat(Tail(ps))

CodecTexts == {Concat(ps) : ps \in UNION {[1..n -> Pieces] : n \in 0..MaxPieces}}

\* decomposition texts: every block kind in every position
CodecBlocks == HintBlocks \cup PairBlocks \cup {"agentonly"}

ApproachLists == UNION {[1..n -> {<<"A1">>, <<"A2">>}] : n \in 0..MaxStrategies}
ResponseLists == UNION {[1..n -> WorkerTexts] : n \in 0..MaxStrategies}

CodecInit ==
  /\ version = "none"
  /\ options = [workerType |-> "auto", enableWebSearch |-> FALSE,
                enableLibrarian |-> FALSE, documents |-> <<>>]
  /\ task = <<"Find", "the", "founder">>
  /\ phase = "idle"
  /\ response = Undefined
  /\ strategies = <<>>
  /\ worker = <<>>
  /\ settled = <<>>
  /\ uploadedFiles = <<>>
  /\ uploadIdx = 0
  /\ created = [simple |-> 0, search |-> 0, librarian |-> 0]
  /\ calls = NoCalls
  /\ results = <<>>
  /\ synthesis = Undefined
  /\ error = NoError
  /\ callLogs = <<>>
  /\ active = 1
  /\ other = NoRun
  /\ ops = <<>>
  /\ \/ \E text \in CodecTexts, tag \in CodecTags :
          codec = [fn |-> "none", arg |-> "text", text |-> text, tag |-> tag,
                   kinds |-> <<>>, responses |-> <<>>, approaches |-> <<>>,
                   out |-> <<>>]
     \/ \E kinds \in BlockLists(CodecBlocks) :
          codec = [fn |-> "none", arg |-> "kinds", text |-> ResponseText(kinds, 1),
                   tag |-> "none", kinds |-> kinds, responses |-> <<>>,
                   approaches |-> <<>>, out |-> <<>>]
     \/ \E responses \in ResponseLists, approaches \in ApproachLists :
          codec = [fn |-> "none", arg |-> "responses", text |-> <<>>,
                   tag |-> "none", kinds |-> <<>>, responses |-> responses,
                   approaches |-> approaches, out |-> <<>>]

CodecFrame ==
  UNCHANGED <<version, options, task, phase, response, strategies, worker, settled,
              uploadedFiles, uploadIdx, created, calls, results, synthesis, error,
              callLogs, active, other, ops>>

Returns(fn, out) == codec' = [codec EXCEPT !.fn = fn, !.out = out]

CallExtractXml ==
  /\ codec.fn = "none" /\ codec.arg = "text"
  /\ Returns("extractXml", extractXml(codec.text, codec.tag))
  /\ CodecFrame

CallExtractSingleXml ==
  /\ codec.fn = "none" /\ codec.arg = "text"
  /\ Returns("extractSingleXml", extractSingleXml(codec.text, codec.tag))
  /\ CodecFrame

CallParseSubtaskStrategies ==
  /\ codec.fn = "none" /\ codec.arg = "kinds"
  /\ Returns("parseSubtaskStrategies", parseSubtaskStrategies(codec.text))
  /\ CodecFrame

CallParseSubtaskStrategiesPairs ==
  /\ codec.fn = "none" /\ codec.arg = "kinds"
  /\ Returns("parseSubtaskStrategiesPairs", parseSubtaskStrategiesPairs(codec.text))
  /\ CodecFrame

CallParseWorkerResults ==
  /\ codec.fn = "none" /\ codec.arg = "responses"
  /\ Returns("parseWorkerResults", parseWorkerResults(codec.responses, codec.approaches))
  /\ CodecFrame

CodecNext ==
  \/ CallExtractXml
  \/ CallExtractSingleXml
  \/ CallParseSubtaskStrategies
  \/ CallParseSubtaskStrategiesPairs
  \/ CallParseWorkerResults

CodecSpec == CodecInit /\ [][CodecNext]_vars

\* ------------------------------------------------------------ C21 .. C30
\* positions of a token in a text, in document order
Positions(text, tok) == {i \in 1..Len(text) : text[i] = tok}

NthPosition(text, tok, n) ==
  CHOOSE i \in Positions(text, tok) :
    Cardinality({j \in Positions(text, tok) : j <= i}) = n

\* the opening and closing tags of tagName alternate, an opening tag first
WellFormed(text, tag) ==
  LET tags == SelectSeq(text, LAMBDA x : x \in {OpenTag(tag), CloseTag(tag)})
  IN /\ Len(tags) % 2 = 0
     /\ \A i \in 1..Len(tags) :
          tags[i] = (IF i % 2 = 1 THEN OpenTag(tag) ELSE CloseTag(tag))

\* what stands between the i-th opening and the i-th closing tag
SpanBody(text, tag, i) ==
  SubSeq(text, NthPosition(text, OpenTag(tag), i) + 1,
               NthPosition(text, CloseTag(tag), i) - 1)

HasPair(text, tag) ==
  \E i \in Positions(text, OpenTag(tag)) :
    \E j \in Positions(text, CloseTag(tag)) : i < j

\* C22: extractXml returns the empty sequence when the text holds no
\* complete pair: the tag never appears, only other tags appear, or an
\* opening tag has no closing tag after it.
C22_NoPairNoValue ==
  (codec.fn = "extractXml" /\ ~HasPair(codec.text, codec.tag)) => codec.out = <<>>

C22_Witness ==
  /\ codec.fn = "extractXml"
  /\ codec.tag = "t"
  /\ codec.text = <<"<u>", "a", "<t>">>
  /\ codec.out = <<>>

\* C23: extractSingleXml returns the first element of extractXml's result
\* when that is non-empty and null when it is empty.
C23_ExtractFirst ==
  codec.fn = "extractSingleXml" =>
    LET all == extractXml(codec.text, codec.tag)
    IN codec.out = (IF all = <<>> THEN Null ELSE all[1])

C23_Witness ==
  /\ codec.fn = "extractSingleXml"
  /\ codec.tag = "t"
  /\ codec.text = <<"<t>", "a", "</t>", "<t>", " ", "b", " ", "</t>">>
  /\ codec.out = <<"a">>

C23_WitnessNull ==
  /\ codec.fn = "extractSingleXml"
  /\ codec.tag = "u"
  /\ codec.text = <<"<t>", "a", "</t>">>
  /\ codec.out = Null

\* the blocks of a decomposition text that carry a description tag, and
\* those that carry an agent tag, in document order
WithDescription(kinds) ==
  SelectSeq([i \in 1..Len(kinds) |-> i], LAMBDA i : kinds[i] \notin {"nodesc", "agentonly"})

WithAgent(kinds) ==
  SelectSeq([i \in 1..Len(kinds) |-> i], LAMBDA i : kinds[i] \notin {"pair", "nodesc"})

\* the capability the agent tag of a block stands for
HintOf(kind) ==
  CASE kind \in {"search", "SEARCH", "agentonly"} -> "search"
    [] kind = "librarian" -> "librarian"
    [] OTHER -> "simple"

Min3(a, b, c) == IF a <= b /\ a <= c THEN a ELSE IF b <= c THEN b ELSE c

\* C24: with agent hints parseSubtaskStrategies returns exactly
\* min(#approach tags, #description tags, #agent tags) strategies, the i-th
\* made of the i-th approach tag, the i-th description tag and the i-th
\* agent tag; tags beyond that number are dropped.
C24_ShortestOfThree ==
  codec.fn = "parseSubtaskStrategies" =>
    LET kinds == codec.kinds
        d == WithDescription(kinds)
        a == WithAgent(kinds)
        n == Min3(Len(kinds), Len(d), Len(a))
    IN codec.out = [i \in 1..n |->
                      [approach |-> <<"A" \o ToString(i)>>,
                       description |-> <<"D" \o ToString(d[i])>>,
                       agentType |-> HintOf(kinds[a[i]])]]

\* two approaches and two agent tags with one description
C24_Witness ==
  /\ codec.fn = "parseSubtaskStrategies"
  /\ codec.kinds = <<"agentonly", "librarian">>
  /\ codec.out = <<[approach |-> <<"A1">>, description |-> <<"D2">>, agentType |-> "search"]>>

\* two approach/description pairs with one agent tag
C24_WitnessOneAgent ==
  /\ codec.fn = "parseSubtaskStrategies"
  /\ codec.kinds = <<"search", "pair">>
  /\ Len(codec.out) = 1

\* the same blocks with every unrecognised agent literal made 'simple'
Recognised(kinds) ==
  [i \in 1..Len(kinds) |-> IF kinds[i] = "bogus" THEN "simple" ELSE kinds[i]]

\* C25: an agent tag whose literal is none of the three recognised ones
\* keeps its entry, approach and description unchanged, with agentType
\* 'simple': the result is what the text gives with that literal valid.
C25_UnknownHintIsSimple ==
  codec.fn = "parseSubtaskStrategies" =>
    /\ codec.out = parseSubtaskStrategies(ResponseText(Recognised(codec.kinds), 1))
    /\ \A i \in 1..Len(codec.out) :
         (i <= Len(WithAgent(codec.kinds)) /\ codec.kinds[WithAgent(codec.kinds)[i]] = "bogus")
           => codec.out[i].agentType = "simple"

C25_Witness ==
  /\ codec.fn = "parseSubtaskStrategies"
  /\ codec.kinds = <<"search", "bogus">>
  /\ codec.out = <<[approach |-> <<"A1">>, description |-> <<"D1">>, agentType |-> "search"],
                   [approach |-> <<"A2">>, description |-> <<"D2">>, agentType |-> "simple"]>>

\* C26: parseWorkerResults returns exactly min(#responses, #approaches)
\* results, the i-th pairing approaches[i] with what responses[i] holds in
\* its result tag (the raw response when it has none or the tag holds only
\* whitespace); the rest is dropped.
C26_ResultsByPosition ==
  codec.fn = "parseWorkerResults" =>
    /\ Len(codec.out) = Min2(Len(codec.responses), Len(codec.approaches))
    /\ \A i \in 1..Len(codec.out) :
         /\ codec.out[i].approach = codec.approaches[i]
         /\ codec.out[i].result =
              (CASE codec.responses[i][1] = "raw" -> <<"raw", "answer">>
                 [] Len(codec.responses[i]) = 5 -> <<"answer">>
                 [] OTHER -> codec.responses[i])

C26_Witness ==
  /\ codec.fn = "parseWorkerResults"
  /\ Len(codec.responses) = 2
  /\ codec.approaches = << <<"A2">> >>
  /\ codec.out = <<[approach |-> <<"A2">>,
                    result |-> IF codec.responses[1][1] = "raw"
                               THEN <<"raw", "answer">> ELSE <<"answer">>]>>
  /\ Len(codec.responses[1]) # 3

\* C27: routing never changes the strategies decomposition produced: the
\* strategies of the run are set once, to what the parser returned for the
\* decomposition text, and stay so through routing, dispatch and synthesis,
\* also when a librarian strategy is run by a SimpleWorker.
C27_RoutingKeepsStrategies ==
  [][strategies' # strategies =>
       (phase = "decomposing" /\ strategies' = ParseOf(response'))]_vars

\* a run is done whose librarian strategy was served by a SimpleWorker
C27_Witness ==
  /\ phase = "done"
  /\ version = "v3"
  /\ \E i \in 1..Len(strategies) :
       /\ strategies[i].agentType = "librarian"
       /\ worker[i].kind = "simple"
       /\ results[i].workerType = "simple"

\* every collaborator call that is pending eventually returns or fails:
\* the decomposition call, each upload, each worker's call, the synthesis call
Settle(i) ==
  \/ WorkerReturn(i) \/ WorkerFail(i)
  \/ SearchReturn(i) \/ SearchFail(i)
  \/ FallbackReturn(i) \/ FallbackFail(i)

CallsSettle ==
  /\ WF_vars(DecomposeReturn \/ DecomposeFail)
  /\ WF_vars(UploadSettle)
  /\ \A i \in 1..(MaxStrategies + 1) : WF_vars(Settle(i))
  /\ WF_vars(SynthesisReturn \/ SynthesisFail)

FairSpec == Init /\ [][Next]_vars /\ CallsSettle

Running == phase \in {"decomposing", "initializing", "dispatching", "synthesizing"}

\* C28: when every collaborator call eventually returns or fails, a run
\* that has started eventually is done or failed; it stays in none of the
\* phases before that for ever.
C28_RunTerminates == Running ~> phase \in {"done", "failed"}

\* a run is done after uploads, a web search that fell back, and synthesis
C28_Witness ==
  /\ phase = "done"
  /\ calls.upload > 0
  /\ calls.fallback > 0
  /\ calls.synthesis = 1

\* a decomposition text with approach and description tags and no agent tag
PairCount(text) ==
  Min2(Cardinality(Positions(text, OpenTag("approach"))),
       Cardinality(Positions(text, OpenTag("description"))))

Unhinted(text) ==
  /\ Positions(text, OpenTag("agent")) = {}
  /\ PairCount(text) > 0

\* C29 as stated: a decomposition text with approach and description tags
\* but no agent tag still yields its complete approach/description pairs,
\* and the run goes on to routing instead of failing with a decomposition
\* error.
C29_PairsSurviveWithoutHints ==
  [][(phase = "decomposing" /\ response' # Undefined /\ Unhinted(response')) =>
       (/\ Len(strategies') = PairCount(response')
        /\ error'.kind # "decomposition")]_vars

\* C29 amended: that holds for the orchestrators whose parser reads approach
\* and description only; with the parser that reads agent hints (v3) the
\* missing agent tags count as a sequence of length zero, no strategy is
\* returned and the run fails with the decomposition error.
C29_HintsRequiredWhenParsed ==
  [][(phase = "decomposing" /\ response' # Undefined /\ Unhinted(response')) =>
       IF version = "v3"
       THEN /\ strategies' = <<>>
            /\ phase' = "failed"
            /\ error'.kind = "decomposition"
       ELSE /\ Len(strategies') = PairCount(response')
            /\ \A i \in 1..Len(strategies') :
                 /\ strategies'[i].approach = Trim(SpanBody(response', "approach", i))
                 /\ strategies'[i].description = Trim(SpanBody(response', "description", i))
            /\ error'.kind # "decomposition"]_vars

C29_Witness ==
  /\ version = "v3"
  /\ response = ResponseText(<<"pair">>, 1)
  /\ strategies = <<>>
  /\ phase = "failed"
  /\ error.kind = "decomposition"

\* the values of a result that hold some token of a set
Holding(out, toks) == {i \in 1..Len(out) : \E j \in 1..Len(out[i]) : out[i][j] \in toks}

\* C30 as stated: no value extractXml returns holds an opening or a closing
\* tag of the tag name, also when two opening tags come before the first
\* closing tag.
C30_ValuesHoldNoTag ==
  codec.fn = "extractXml" =>
    Holding(codec.out, {OpenTag(codec.tag), CloseTag(codec.tag)}) = {}

\* C30 amended: each value runs from the leftmost opening tag not yet
\* consumed to the first closing tag after it, so no value holds a closing
\* tag and there are at most as many values as closing tags; a value holds
\* an opening tag exactly when a second opening tag comes before that
\* closing tag, which a well-formed text excludes.
C30_ValuesHoldNoClosingTag ==
  codec.fn = "extractXml" =>
    /\ Holding(codec.out, {CloseTag(codec.tag)}) = {}
    /\ Len(codec.out) <= Cardinality(Positions(codec.text, CloseTag(codec.tag)))
    /\ WellFormed(codec.text, codec.tag) =>
         Holding(codec.out, {OpenTag(codec.tag)}) = {}
    /\ codec.text = <<"<t>", "a", "<t>", "a", "</t>">> /\ codec.tag = "t" =>
         codec.out = << <<"a", "<t>", "a">> >>

C30_Witness ==
  /\ codec.fn = "extractXml"
  /\ codec.tag = "t"
  /\ codec.text = <<"<t>", "a", "<t>", "a", "</t>">>
  /\ codec.out = << <<"a", "<t>", "a">> >>

\* ------------------------------------------------------------ C31 .. C39
\* C31: parseWorkerResults takes the trimmed raw response as the result only
\* when the response holds no result tag; when it holds one, the result is
\* the trimmed content of the first result tag, also when that is empty.
C31_RawOnlyWithoutTag ==
  codec.fn = "parseWorkerResults" =>
    \A i \in 1..Len(codec.out) :
      codec.out[i].result =
        (IF HasPair(codec.responses[i], "result")
         THEN Trim(SpanBody(codec.responses[i], "result", 1))
         ELSE Trim(codec.responses[i]))

\* C31 amended: the trimmed raw response is the result when the response
\* holds no result tag and also when its first result tag holds nothing but
\* whitespace; otherwise the result is the trimmed content of that tag.
C31_RawWithoutTagOrContent ==
  codec.fn = "parseWorkerResults" =>
    \A i \in 1..Len(codec.out) :
      LET r == codec.responses[i]
          tagged == HasPair(r, "result")
          body == IF tagged THEN Trim(SpanBody(r, "result", 1)) ELSE <<>>
      IN /\ codec.out[i].result = (IF tagged /\ body # <<>> THEN body ELSE Trim(r))
         /\ codec.out[i].result # <<>>

C31_Witness ==
  /\ codec.fn = "parseWorkerResults"
  /\ codec.responses = << <<"<result>", " ", "</result>">> >>
  /\ codec.approaches = << <<"A1">> >>
  /\ codec.out = <<[approach |-> <<"A1">>, result |-> <<"<result>", " ", "</result>">>]>>

\* the librarian of a run with agent hints cannot serve: no document is
\* configured, or initialize threw because no file was uploaded
NoLibrarian == Len(options.documents) = 0 \/ uploadedFiles = <<>>

\* C32: with agent hints each strategy is executed by the worker class of
\* its hint and results[i].workerType is that hint, except that a librarian
\* hint runs as simple when no document is configured or initialize failed;
\* simple and search hints are never rerouted, whatever happens to others.
C32_HintDecidesWorker ==
  (version = "v3" /\ worker # <<>>) =>
    /\ Len(worker) = Len(strategies)
    /\ \A i \in 1..Len(strategies) :
         /\ worker[i].kind =
              (IF strategies[i].agentType = "librarian" /\ NoLibrarian
               THEN "simple" ELSE strategies[i].agentType)
         /\ phase = "done" =>
              (/\ Len(results) = Len(strategies)
               /\ results[i].workerType = worker[i].kind)

\* initialize failed: the librarian strategy ran as simple, the search
\* strategy beside it as search
C32_Witness ==
  /\ version = "v3"
  /\ phase = "done"
  /\ Len(options.documents) > 0
  /\ uploadedFiles = <<>>
  /\ Len(strategies) = 2
  /\ strategies[1].agentType = "librarian" /\ results[1].workerType = "simple"
  /\ strategies[2].agentType = "search" /\ results[2].workerType = "search"

ExecuteCalls == calls.worker + calls.websearch + calls.fallback + calls.filebased

\* C33: within a run initialize is invoked at most once; its uploads are
\* made one after another in the order of the configured paths and all of
\* them have settled before any worker's execute is called; no librarian
\* execute is called unless initialize uploaded a file.
C33_InitializeOnceBeforeDispatch ==
  /\ [](/\ created.librarian <= 1
        /\ phase = "initializing" => (worker = <<>> /\ ExecuteCalls = 0)
        /\ \A i \in 1..Len(worker) :
             worker[i].kind = "librarian" => uploadedFiles # <<>>)
  /\ [][/\ phase' = "initializing" /\ phase # "initializing" =>
             (phase = "decomposing" /\ created.librarian = 0)
        /\ phase = "initializing" /\ phase' = "initializing" =>
             (uploadIdx' > uploadIdx /\ calls'.upload = calls.upload + 1)
        /\ phase = "initializing" /\ phase' # "initializing" =>
             NextUpload(options.documents, uploadIdx + 1) = 0
        /\ phase # "initializing" /\ phase' # "initializing" =>
             (calls'.upload = calls.upload /\ uploadedFiles' = uploadedFiles)]_vars

\* both configured paths were uploaded, then the librarian executed
C33_Witness ==
  /\ phase = "done"
  /\ calls.upload = 2
  /\ Len(uploadedFiles) = 2
  /\ created.librarian = 1
  /\ \E i \in 1..Len(worker) : worker[i].kind = "librarian"

\* how often a path is configured, and how many records it has
Configured(p) == Cardinality({i \in 1..Len(options.documents) : options.documents[i] = p})
Recorded(p) == Cardinality({i \in 1..Len(uploadedFiles) : uploadedFiles[i].path = p})

\* C34: after any sequence of initialize, execute and cleanup calls on one
\* LibrarianWorker its records hold one record per successfully uploaded
\* input file and none for a file that failed validation or upload; there
\* are never more records than configured paths, also when initialize is
\* called more than once.
C34_OneRecordPerUploadedFile ==
  /\ Len(uploadedFiles) <= Len(options.documents)
  /\ \A p \in WorkerPaths :
       /\ Recorded(p) <= Configured(p)
       /\ ~Uploadable(p) => Recorded(p) = 0

\* the method whose call this step is, or "none"
Called == IF Len(ops') > Len(ops) THEN ops'[Len(ops')].op ELSE "none"

\* a cleanup was called before call m and no initialize succeeded since
Emptied(m) ==
  \E n \in 1..(m - 1) :
    /\ ops[n].op = "cleanup"
    /\ \A k \in (n + 1)..(m - 1) : ~(ops[k].op = "initialize" /\ ops[k].outcome = "ok")

\* C35: cleanup discards every record and makes no collaborator call;
\* after it getUploadedFiles returns nothing and execute fails with the
\* not-initialized error until a later initialize succeeds; execute and
\* getUploadedFiles leave the records as they are.
C35_CleanupDiscardsRecords ==
  /\ [](\A m \in 1..Len(ops) :
          Emptied(m) =>
            /\ ops[m].op = "getUploadedFiles" => ops[m].held = 0
            /\ ops[m].op = "execute" => ops[m].outcome = "not-initialized")
  /\ [][/\ Called = "cleanup" => (uploadedFiles' = <<>> /\ calls' = calls)
        /\ Called \in {"execute", "getUploadedFiles"} => uploadedFiles' = uploadedFiles
        /\ (phase = "executing" /\ phase' = "idle") => uploadedFiles' = uploadedFiles]_vars

C35_Witness ==
  /\ Len(ops) = 3
  /\ ops[1].op = "initialize" /\ ops[1].outcome = "ok" /\ calls.upload > 0
  /\ ops[2].op = "cleanup" /\ ops[2].held > 0
  /\ ops[3].op = "getUploadedFiles" /\ ops[3].held = 0
  /\ uploadedFiles = <<>>

\* the display name of the document a remote id stands for
NameOfId(id) == UploadedFile(CHOOSE p \in WorkerPaths : UploadedFile(p).id = id).name

\* C36: every successful librarian execute passes the ids of all documents
\* uploaded at the time to the generation call and returns as filesUsed
\* the display names of exactly those documents, in upload order.
C36_FilesUsedAreFilesPassed ==
  [][/\ (Called = "execute" /\ phase' = "executing") =>
          worker'[1].ids = FileIds(uploadedFiles)
     /\ (phase = "executing" /\ callLogs' # callLogs) =>
          results'[1].filesUsed = [i \in 1..Len(worker[1].ids) |-> NameOfId(worker[1].ids[i])]]_vars

\* C36 within a run (holds under Spec): all librarian results of one run
\* report the documents the worker held while dispatching
C36_RunReportsSameFiles ==
  phase = "done" =>
    \A i \in 1..Len(results) :
      results[i].workerType = "librarian" =>
        /\ results[i].filesUsed = [j \in 1..Len(uploadedFiles) |-> uploadedFiles[j].name]
        /\ worker[i].ids = FileIds(uploadedFiles)

\* what the prompt holds between the n-th occurrence of a marker and the
\* next occurrence of any marker
Markers == {"Approach:", "Result:", "---", "Provide your synthesis:"}

AfterMarker(prompt, marker, n) ==
  LET from == NthPosition(prompt, marker, n)
      to == CHOOSE j \in (from + 1)..Len(prompt) :
              /\ prompt[j] \in Markers
              /\ \A k \in (from + 1)..(j - 1) : prompt[k] \notin Markers
  IN SubSeq(prompt, from + 1, to - 1)

\* C37: the prompt of the synthesis call holds every worker result of the
\* run exactly once, as (approach, result) pairs in the order of the
\* strategies, and nothing of an execution that failed or did not take
\* place.
C37_PromptHoldsEveryResultOnce ==
  (phase = "synthesizing" /\ calls.synthesis = 1) =>
    LET prompt == getSynthesisPrompt(task, results)
        n == Len(strategies)
    IN /\ Len(results) = n
       /\ \A i \in 1..n : worker[i].st = "resolved"
       /\ Cardinality(Positions(prompt, "Approach:")) = n
       /\ Cardinality(Positions(prompt, "Result:")) = n
       /\ \A i \in 1..n :
            /\ AfterMarker(prompt, "Approach:", i) = strategies[i].approach
            /\ AfterMarker(prompt, "Result:", i) =
                 (IF worker[i].kind = "llm"
                  THEN Trim(ResultOrRaw(worker[i].res.result))
                  ELSE worker[i].res.result)

\* a librarian hint without documents ran as simple beside a search that
\* fell back: the prompt holds the two results in strategy order
C37_Witness ==
  /\ phase = "synthesizing" /\ calls.synthesis = 1
  /\ version = "v3"
  /\ Len(strategies) = 2
  /\ strategies[1].agentType = "librarian" /\ worker[1].kind = "simple"
  /\ worker[2].kind = "search" /\ calls.fallback = 1
  /\ settled = <<2, 1>>
  /\ getSynthesisPrompt(task, results) =
       <<"You are a synthesis specialist.", "Original Task:">> \o task
         \o <<"Worker Results:", "Approach:", "A1", "Result:">> \o results[1].result
         \o <<"---", "Approach:", "A2", "Result:">> \o results[2].result
         \o <<"Provide your synthesis:">>

\* the configured paths that pass validation: the file exists and its
\* extension, in any case, is one of .pdf .txt .md .doc .docx
Valid(p) == p \in {"report.pdf", "NOTES.MD"}

\* C38: during initialize a path that does not exist or whose extension
\* is not accepted is never passed to the upload call and gets no record;
\* the upload call is made exactly once for each path that passes
\* validation, in the order of the paths.
C38_OnlyValidPathsUploaded ==
  /\ [](/\ \A i \in 1..Len(uploadedFiles) : Valid(uploadedFiles[i].path)
        /\ phase = "initializing" =>
             (uploadIdx \in 1..Len(options.documents) /\ Valid(options.documents[uploadIdx])))
  /\ [][/\ calls'.upload # calls.upload =>
             /\ calls'.upload = calls.upload + 1
             /\ uploadIdx' > uploadIdx
             /\ \A k \in (uploadIdx + 1)..(uploadIdx' - 1) : ~Valid(options.documents[k])
        /\ (phase' = "idle" /\ (phase = "initializing" \/ Called = "initialize")) =>
             \A k \in (uploadIdx + 1)..Len(options.documents) : ~Valid(options.documents[k])]_vars

\* of a missing file and a file with an upper-case extension only the
\* second was uploaded
C38_Witness ==
  /\ options.documents = <<"gone.txt", "NOTES.MD">>
  /\ Len(ops) = 1 /\ ops[1].op = "initialize" /\ ops[1].outcome = "ok"
  /\ calls.upload = 1
  /\ uploadedFiles = <<UploadedFile("NOTES.MD")>>

\* the block kinds with every agent literal written in lower case
Lowered(kinds) ==
  [i \in 1..Len(kinds) |-> IF kinds[i] = "SEARCH" THEN "search" ELSE kinds[i]]

\* C39: parseSubtaskStrategies recognises the agent literal in any case:
\* an agent tag holding SEARCH gives agentType 'search', in lower case,
\* not the default 'simple'; the result is that of the same text with the
\* literal written in lower case.
C39_HintCaseInsensitive ==
  codec.fn = "parseSubtaskStrategies" =>
    /\ codec.out = parseSubtaskStrategies(ResponseText(Lowered(codec.kinds), 1))
    /\ \A i \in 1..Len(codec.out) :
         (i <= Len(WithAgent(codec.kinds)) /\ codec.kinds[WithAgent(codec.kinds)[i]] = "SEARCH")
           => codec.out[i].agentType = "search"

C39_Witness ==
  /\ codec.fn = "parseSubtaskStrategies"
  /\ codec.kinds = <<"SEARCH", "simple">>
  /\ codec.out = <<[approach |-> <<"A1">>, description |-> <<"D1">>, agentType |-> "search"],
                   [approach |-> <<"A2">>, description |-> <<"D2">>, agentType |-> "simple"]>>
====
